---- MODULE Spec2Model ----
(***************************************************************************)
(* Verification model of the KeyboardMouseShare communication core:       *)
(* the Input Relay (src/python/src/relay/input_relay.py), the Relay       *)
(* Manager, the Device Communicator and the Connection Handler call that  *)
(* the Relay makes.                                                        *)
(*                                                                         *)
(* Part I models ONE InputRelay at thread granularity: a producer calling *)
(* queue_event, the worker thread running _relay_loop, and a caller of    *)
(* stop(), which runs _flush_batch on its own thread and then joins.      *)
(***************************************************************************)
EXTENDS Integers, Sequences, FiniteSets, TLC

\* ------------------------------------------------------------------ bounds
\* Number of queue_event attempts the producer makes (event ids 1..MaxEvents).
MaxEvents == 3
\* Largest RelayConfig.max_queue_size tried (0 = queue.Queue's "unbounded").
MaxQueueSize == 2
\* Largest RelayConfig.batch_size tried.
MaxBatchSize == 2
\* Largest RelayConfig.max_retries tried.
MaxRetries == 2

\* ------------------------------------------------------------------ state
VARIABLES
    config,           \* RelayConfig: max_queue_size, batch_size, max_retries
    is_running,       \* InputRelay.is_running
    event_queue,      \* InputRelay.event_queue (queue.Queue), oldest first
    batch_buffer,     \* InputRelay.batch_buffer
    metrics,          \* RelayMetrics: events_received/forwarded/failed
    pc,               \* position of the worker and of the stop() caller
    w_event,          \* worker: the event returned by event_queue.get()
    events_to_send,   \* per thread: _flush_batch's local copy of the batch
    attempt,          \* per thread: _forward_event's loop variable
    produced,         \* number of queue_event calls made so far
    results,          \* history: queue_event calls, in call order
    sent,             \* history: events handed to connection.send_message
    cb_forwarded,     \* history: on_event_forwarded invocations
    cb_failed         \* history: on_event_failed invocations

relayVars == <<config, is_running, event_queue, batch_buffer, metrics, pc,
               w_event, events_to_send, attempt, produced, results, sent,
               cb_forwarded, cb_failed>>

\* Part II: the RelayManager / DeviceCommunicator of the local device, at
\* handler granularity. Relay objects live in a heap, as Python references.
VARIABLES
    heap,             \* relay object id -> InputRelay object state
    relays,           \* RelayManager.relays: device id -> relay object id
    device_links,     \* DeviceCommunicator.device_links: device id -> DeviceLink
    last_call,        \* history: the last API call, its arguments and result
    offered,          \* number of events handed to the API so far
    wire,             \* frames written to each peer's stream, oldest first
    dispatched        \* per peer: events its Receiver's handlers were called with

sysVars == <<heap, relays, device_links, last_call, offered, wire, dispatched>>

\* Part III: time, in ticks, for the worker's batch linger.
VARIABLES
    get_waited,       \* ticks the worker has been blocked in event_queue.get
    batch_age         \* ticks since the oldest event of the batch was appended

timeVars == <<get_waited, batch_age>>

\* Part IV: the InputEventReceiver of a device.
VARIABLES
    event_handlers,   \* InputEventReceiver.event_handlers, registration order
    recv_last         \* history: the last process_received_event call

recvVars == <<event_handlers, recv_last>>

\* Part V: the DiscoveryService of the local device, its clock, its sweep
\* threads and the device table of its database.
VARIABLES
    disc_running,        \* DiscoveryService.running
    browsing,            \* the ServiceBrowser delivers observations
    listeners,           \* number of listeners, in registration order 1..n
    discovered_devices,  \* DiscoveryService.discovered_devices: id -> Device
    device_repo,         \* devices table: id -> row
    sweepers,            \* live check_offline_loop threads: thread -> position
    advertised,          \* network: per peer, the service name it advertises
    starts,              \* number of start() calls made so far
    offline_since_seen,  \* history: per peer, offline rounds since its last sighting
    disc_last            \* history: the last discovery step and its notifications

discVars == <<disc_running, browsing, listeners, discovered_devices, device_repo,
              sweepers, advertised, starts, offline_since_seen, disc_last>>

\* Part VI: one ConnectionHandler and the byte stream its peer writes to it.
VARIABLES
    stream,           \* bytes written by the peer and not yet read, as runs
    peer_closed,      \* the peer has closed its end
    sock,             \* ConnectionHandler.socket: "none", "listening", "connected"
    rx,               \* the receive_message call in progress: its locals
    handler_log,      \* history: completed calls on the handler, in order
    tx,               \* per sending thread: the send_message call in progress
    tx_log            \* history: messages given to send_message, in order

connVars == <<stream, peer_closed, sock, rx, handler_log, tx, tx_log>>

\* Part VII: argument and result of a constructor or conversion under test.
VARIABLES
    call_args,        \* the arguments drawn for the call
    call_result       \* "pending", or the call's result

callVars == <<call_args, call_result>>

\* Part VIII: the RelayManager's mutex around one relay, and the callbacks
\* of that relay that raised.
VARIABLES
    relay_lock,       \* RelayManager.relay_lock: held or not, and by which call
    cb_raised         \* history: what a raising relay callback left undone

lockVars == <<relay_lock, cb_raised>>

\* Part IX: one relay through start() and stop() calls.
VARIABLES
    lifecycle,        \* the threads start() has spawned, the caller of
                      \* start()/stop(), and the last call's result
    send_false,       \* history: events whose send_message call returned False
    loaded,           \* per thread: the counter += it is in, and the value read
    disc_lock         \* DiscoveryService._lock: its holder, each thread's
                      \* position around it, and the listener calls made

auditVars == <<lifecycle, send_false, loaded, disc_lock>>

\* The threads that run DiscoveryService code: zeroconf's callback thread
\* and the check_offline_loop thread.
DiscThreads == {"zeroconf", "sweeper"}

\* The threads that increment a RelayMetrics counter.
CounterThreads == {"p1", "p2", "worker", "stopper"}

NoIncrement == [field |-> "none", phase |-> "none", value |-> 0, event |-> 0]

extVars == <<connVars, callVars, lockVars, auditVars>>

restVars == <<recvVars, discVars, extVars>>

vars == <<relayVars, sysVars, timeVars, recvVars, discVars, extVars>>

Threads == {"worker", "stopper"}

\* InputEventReceiver.__init__: no handler registered.
RecvInit ==
    /\ event_handlers = <<>>
    /\ recv_last = [flip |-> FALSE, valid |-> FALSE, handlers |-> <<>>,
                    raising |-> {}, calls |-> <<>>, propagated |-> FALSE]

\* No ConnectionHandler byte stream and no call under test.
ConnIdle ==
    /\ stream = <<>>
    /\ peer_closed = FALSE
    /\ sock = "none"
    /\ rx = <<>>
    /\ handler_log = <<>>
    /\ tx = <<>>
    /\ tx_log = <<>>

\* No call under test.
CallIdle ==
    /\ call_args = <<>>
    /\ call_result = [status |-> "pending", value |-> <<>>]

\* RelayManager.__init__: relay_lock = threading.Lock(); no callback raised.
LockIdle ==
    /\ relay_lock = [held |-> FALSE, op |-> "none"]
    /\ cb_raised = [lost |-> {}, join_skipped |-> FALSE]

\* InputRelay.__init__: relay_thread = None, no start() or stop() called.
LifeIdle ==
    lifecycle = [threads |-> <<>>,
                 caller |-> [at |-> "idle", copy |-> <<>>],
                 last |-> [op |-> "none", ret |-> FALSE, was_running |-> FALSE,
                           spawned |-> FALSE]]

\* DiscoveryService.__init__: _lock = threading.Lock(), not held.
MutexIdle ==
    disc_lock = [holder |-> "none",
                 at |-> [t \in DiscThreads |-> "idle"],
                 pending |-> [t \in DiscThreads |-> <<>>],
                 invoked |-> {}]

AuditIdle ==
    /\ LifeIdle
    /\ send_false = {}
    /\ loaded = [t \in CounterThreads |-> NoIncrement]
    /\ MutexIdle

ExtIdle == ConnIdle /\ CallIdle /\ LockIdle /\ AuditIdle

\* DiscoveryService.__init__ on an empty devices table: not started.
DiscIdle ==
    /\ disc_running = FALSE
    /\ browsing = FALSE
    /\ listeners = 0
    /\ discovered_devices = <<>>
    /\ device_repo = <<>>
    /\ sweepers = <<>>
    /\ advertised = <<>>
    /\ starts = 0
    /\ offline_since_seen = <<>>
    /\ disc_last = [op |-> "none", id |-> "none", notes |-> <<>>,
                    changed |-> {}, sweeper |-> 0, raising |-> {}]

\* ---------------------------------------------------------------- helpers
\* A queue that fills one event too late.
QueueFull_off_by_one(q, maxsize) == maxsize > 0 /\ Len(q) > maxsize

\* queue.Queue.full(): maxsize <= 0 means the queue never fills.
QueueFull(q, maxsize) == maxsize > 0 /\ Len(q) >= maxsize

\* The send outcomes _forward_event distinguishes: send_message returns, or
\* it raises.
SendOutcomes == {"ok", "raise"}

\* ------------------------------------------------------- InputRelay.__init__
RelayConfigs ==
    [max_queue_size : 0..MaxQueueSize,
     batch_size     : 1..MaxBatchSize,
     max_retries    : 0..MaxRetries]

NewMetrics == [events_received |-> 0, events_forwarded |-> 0, events_failed |-> 0]

\* The relay after __init__ and a successful start(): the worker is at the
\* top of _relay_loop.
RelayInit ==
    /\ config \in RelayConfigs
    /\ is_running = TRUE
    /\ event_queue = <<>>
    /\ batch_buffer = <<>>
    /\ metrics = NewMetrics
    /\ pc = [t \in Threads |-> IF t = "worker" THEN "loop" ELSE "idle"]
    /\ w_event = 0
    /\ events_to_send = [t \in Threads |-> <<>>]
    /\ attempt = [t \in Threads |-> 0]
    /\ produced = 0
    /\ results = <<>>
    /\ sent = <<>>
    /\ cb_forwarded = <<>>
    /\ cb_failed = <<>>

\* ------------------------------------------------- InputRelay.queue_event
\* queue_event dropping on a full queue without counting the failure.
queue_event_silent(running, q, m, maxsize, e) ==
    IF ~running \/ QueueFull(q, maxsize)
    THEN [ret |-> FALSE, queue |-> q, metrics |-> m]
    ELSE [ret |-> TRUE, queue |-> Append(q, e),
          metrics |-> [m EXCEPT !.events_received = @ + 1]]

\* The value queue_event returns and the state it leaves, for a relay in
\* state (running, q, m) and event e.
queue_event(running, q, m, maxsize, e) ==
    IF ~running
    THEN [ret |-> FALSE, queue |-> q, metrics |-> m]
    ELSE IF QueueFull(q, maxsize)
         THEN [ret |-> FALSE, queue |-> q,
               metrics |-> [m EXCEPT !.events_failed = @ + 1]]
         ELSE [ret |-> TRUE, queue |-> Append(q, e),
               metrics |-> [m EXCEPT !.events_received = @ + 1]]

\* The producer calls queue_event with the next event.
QueueEvent ==
    /\ produced < MaxEvents
    /\ LET e == produced + 1
           r == queue_event(is_running, event_queue, metrics,
                            config.max_queue_size, e)
       IN /\ event_queue' = r.queue
          /\ metrics' = r.metrics
          /\ produced' = e
          /\ results' = Append(results, [event |-> e, ret |-> r.ret,
                                         running |-> is_running])
    /\ UNCHANGED <<config, is_running, batch_buffer, pc, w_event,
                   events_to_send, attempt, sent, cb_forwarded, cb_failed>>
    /\ UNCHANGED <<sysVars, timeVars, restVars>>

\* ------------------------------------------------- InputRelay._relay_loop
\* The loop test as "while True".
WorkerLoop_forever ==
    /\ pc["worker"] = "loop"
    /\ pc' = [pc EXCEPT !["worker"] = "get"]
    /\ UNCHANGED <<config, is_running, event_queue, batch_buffer, metrics,
                   w_event, events_to_send, attempt, produced, results, sent,
                   cb_forwarded, cb_failed>>
    /\ UNCHANGED <<sysVars, timeVars, restVars>>

\* while self.is_running:
WorkerLoop ==
    /\ pc["worker"] = "loop"
    /\ pc' = [pc EXCEPT !["worker"] = IF is_running THEN "get" ELSE "done"]
    /\ UNCHANGED <<config, is_running, event_queue, batch_buffer, metrics,
                   w_event, events_to_send, attempt, produced, results, sent,
                   cb_forwarded, cb_failed>>
    /\ UNCHANGED <<sysVars, timeVars, restVars>>

\* event = self.event_queue.get(timeout=...): an event is there.
WorkerGet ==
    /\ pc["worker"] = "get"
    /\ event_queue # <<>>
    /\ w_event' = Head(event_queue)
    /\ event_queue' = Tail(event_queue)
    /\ pc' = [pc EXCEPT !["worker"] = "add"]
    /\ UNCHANGED <<config, is_running, batch_buffer, metrics, events_to_send,
                   attempt, produced, results, sent, cb_forwarded, cb_failed>>
    /\ UNCHANGED <<sysVars, timeVars, restVars>>

\* except queue.Empty: flush the batch if it is not empty, then continue.
WorkerTimeout ==
    /\ pc["worker"] = "get"
    /\ event_queue = <<>>
    /\ pc' = [pc EXCEPT !["worker"] =
                 IF batch_buffer # <<>> THEN "flush_check" ELSE "loop"]
    /\ UNCHANGED <<config, is_running, event_queue, batch_buffer, metrics,
                   w_event, events_to_send, attempt, produced, results, sent,
                   cb_forwarded, cb_failed>>
    /\ UNCHANGED <<sysVars, timeVars, restVars>>

\* _add_to_batch inserting at the front of the batch.
WorkerAddToBatch_prepend ==
    /\ pc["worker"] = "add"
    /\ batch_buffer' = <<w_event>> \o batch_buffer
    /\ w_event' = 0
    /\ pc' = [pc EXCEPT !["worker"] = "size"]
    /\ UNCHANGED <<config, is_running, event_queue, metrics, events_to_send,
                   attempt, produced, results, sent, cb_forwarded, cb_failed>>
    /\ UNCHANGED <<sysVars, timeVars, restVars>>

\* self._add_to_batch(event): append under event_lock.
WorkerAddToBatch ==
    /\ pc["worker"] = "add"
    /\ batch_buffer' = Append(batch_buffer, w_event)
    /\ w_event' = 0
    /\ pc' = [pc EXCEPT !["worker"] = "size"]
    /\ UNCHANGED <<config, is_running, event_queue, metrics, events_to_send,
                   attempt, produced, results, sent, cb_forwarded, cb_failed>>
    /\ UNCHANGED <<sysVars, timeVars, restVars>>

\* if len(self.batch_buffer) >= self.config.batch_size: self._flush_batch()
WorkerSizeCheck ==
    /\ pc["worker"] = "size"
    /\ pc' = [pc EXCEPT !["worker"] =
                 IF Len(batch_buffer) >= config.batch_size
                 THEN "flush_check" ELSE "loop"]
    /\ UNCHANGED <<config, is_running, event_queue, batch_buffer, metrics,
                   w_event, events_to_send, attempt, produced, results, sent,
                   cb_forwarded, cb_failed>>
    /\ UNCHANGED <<sysVars, timeVars, restVars>>

\* ------------------------------------------------ InputRelay._flush_batch
\* Where thread t continues when its _flush_batch call returns.
FlushReturn(t) == IF t = "worker" THEN "loop" ELSE "join"

\* if not self.batch_buffer: return
FlushCheck(t) ==
    /\ pc[t] = "flush_check"
    /\ pc' = [pc EXCEPT ![t] =
                 IF batch_buffer = <<>> THEN FlushReturn(t) ELSE "flush_copy"]
    /\ UNCHANGED <<config, is_running, event_queue, batch_buffer, metrics,
                   w_event, events_to_send, attempt, produced, results, sent,
                   cb_forwarded, cb_failed>>
    /\ UNCHANGED <<sysVars, timeVars, restVars>>

\* The copy without the clear.
FlushCopy_noclear(t) ==
    /\ pc[t] = "flush_copy"
    /\ events_to_send' = [events_to_send EXCEPT ![t] = batch_buffer]
    /\ pc' = [pc EXCEPT ![t] = "flush_next"]
    /\ UNCHANGED <<config, is_running, event_queue, batch_buffer, metrics,
                   w_event, attempt, produced, results, sent, cb_forwarded,
                   cb_failed>>
    /\ UNCHANGED <<sysVars, timeVars, restVars>>

\* with self.event_lock: events_to_send = batch_buffer.copy(); clear()
FlushCopy(t) ==
    /\ pc[t] = "flush_copy"
    /\ events_to_send' = [events_to_send EXCEPT ![t] = batch_buffer]
    /\ batch_buffer' = <<>>
    /\ pc' = [pc EXCEPT ![t] = "flush_next"]
    /\ UNCHANGED <<config, is_running, event_queue, metrics, w_event, attempt,
                   produced, results, sent, cb_forwarded, cb_failed>>
    /\ UNCHANGED <<sysVars, timeVars, restVars>>

\* for event in events_to_send: (loop head)
FlushNext(t) ==
    /\ pc[t] = "flush_next"
    /\ IF events_to_send[t] = <<>>
       THEN /\ pc' = [pc EXCEPT ![t] = FlushReturn(t)]
            /\ UNCHANGED attempt
       ELSE /\ pc' = [pc EXCEPT ![t] = "forward"]
            /\ attempt' = [attempt EXCEPT ![t] = 0]
    /\ UNCHANGED <<config, is_running, event_queue, batch_buffer, metrics,
                   w_event, events_to_send, produced, results, sent,
                   cb_forwarded, cb_failed>>
    /\ UNCHANGED <<sysVars, timeVars, restVars>>

\* ----------------------------------------------- InputRelay._forward_event
\* One pass of "for attempt in range(self.config.max_retries)": the event is
\* handed to connection.send_message; a return ends the loop with True, an
\* exception moves on to the next attempt (after the retry delay).
ForwardAttempt(t, outcome) ==
    /\ pc[t] = "forward"
    /\ attempt[t] < config.max_retries
    /\ sent' = Append(sent, Head(events_to_send[t]))
    /\ IF outcome = "ok"
       THEN /\ pc' = [pc EXCEPT ![t] = "count_ok"]
            /\ UNCHANGED attempt
       ELSE /\ attempt' = [attempt EXCEPT ![t] = @ + 1]
            /\ UNCHANGED pc
    /\ UNCHANGED <<config, is_running, event_queue, batch_buffer, metrics,
                   w_event, events_to_send, produced, results, cb_forwarded,
                   cb_failed>>
    /\ UNCHANGED <<sysVars, timeVars, restVars>>

\* The for loop is exhausted: return False.
ForwardExhausted(t) ==
    /\ pc[t] = "forward"
    /\ attempt[t] >= config.max_retries
    /\ pc' = [pc EXCEPT ![t] = "count_fail"]
    /\ UNCHANGED <<config, is_running, event_queue, batch_buffer, metrics,
                   w_event, events_to_send, attempt, produced, results, sent,
                   cb_forwarded, cb_failed>>
    /\ UNCHANGED <<sysVars, timeVars, restVars>>

\* The success branch without the events_forwarded increment.
FlushCountForwarded_nocount(t) ==
    /\ pc[t] = "count_ok"
    /\ cb_forwarded' = Append(cb_forwarded, Head(events_to_send[t]))
    /\ events_to_send' = [events_to_send EXCEPT ![t] = Tail(@)]
    /\ pc' = [pc EXCEPT ![t] = "flush_next"]
    /\ UNCHANGED <<config, is_running, event_queue, batch_buffer, metrics,
                   w_event, attempt, produced, results, sent, cb_failed>>
    /\ UNCHANGED <<sysVars, timeVars, restVars>>

\* if success: events_forwarded += 1; on_event_forwarded(event)
FlushCountForwarded(t) ==
    /\ pc[t] = "count_ok"
    /\ metrics' = [metrics EXCEPT !.events_forwarded = @ + 1]
    /\ cb_forwarded' = Append(cb_forwarded, Head(events_to_send[t]))
    /\ events_to_send' = [events_to_send EXCEPT ![t] = Tail(@)]
    /\ pc' = [pc EXCEPT ![t] = "flush_next"]
    /\ UNCHANGED <<config, is_running, event_queue, batch_buffer, w_event,
                   attempt, produced, results, sent, cb_failed>>
    /\ UNCHANGED <<sysVars, timeVars, restVars>>

\* The failure branch without the on_event_failed call.
FlushCountFailed_nocallback(t) ==
    /\ pc[t] = "count_fail"
    /\ metrics' = [metrics EXCEPT !.events_failed = @ + 1]
    /\ events_to_send' = [events_to_send EXCEPT ![t] = Tail(@)]
    /\ pc' = [pc EXCEPT ![t] = "flush_next"]
    /\ UNCHANGED <<config, is_running, event_queue, batch_buffer, w_event,
                   attempt, produced, results, sent, cb_forwarded, cb_failed>>
    /\ UNCHANGED <<sysVars, timeVars, restVars>>

\* else: events_failed += 1; on_event_failed(event, RuntimeError(...))
FlushCountFailed(t) ==
    /\ pc[t] = "count_fail"
    /\ metrics' = [metrics EXCEPT !.events_failed = @ + 1]
    /\ cb_failed' = Append(cb_failed, Head(events_to_send[t]))
    /\ events_to_send' = [events_to_send EXCEPT ![t] = Tail(@)]
    /\ pc' = [pc EXCEPT ![t] = "flush_next"]
    /\ UNCHANGED <<config, is_running, event_queue, batch_buffer, w_event,
                   attempt, produced, results, sent, cb_forwarded>>
    /\ UNCHANGED <<sysVars, timeVars, restVars>>

\* --------------------------------------------------------- InputRelay.stop
\* if not self.is_running: return False; self.is_running = False; then
\* self._flush_batch() on the caller's thread.
StopCall ==
    /\ pc["stopper"] = "idle"
    /\ IF is_running
       THEN /\ is_running' = FALSE
            /\ pc' = [pc EXCEPT !["stopper"] = "flush_check"]
       ELSE /\ pc' = [pc EXCEPT !["stopper"] = "returned"]
            /\ UNCHANGED is_running
    /\ UNCHANGED <<config, event_queue, batch_buffer, metrics, w_event,
                   events_to_send, attempt, produced, results, sent,
                   cb_forwarded, cb_failed>>
    /\ UNCHANGED <<sysVars, timeVars, restVars>>

\* self.relay_thread.join(timeout=2.0): returns when the worker has exited
\* or when the timeout has elapsed, whichever is first.
StopJoin ==
    /\ pc["stopper"] = "join"
    /\ pc' = [pc EXCEPT !["stopper"] = "returned"]
    /\ UNCHANGED <<config, is_running, event_queue, batch_buffer, metrics,
                   w_event, events_to_send, attempt, produced, results, sent,
                   cb_forwarded, cb_failed>>
    /\ UNCHANGED <<sysVars, timeVars, restVars>>

\* ======================================================================
\* Part II: relay objects, the RelayManager and the DeviceCommunicator
\* ======================================================================
\* The local device (the master) and the remote devices it may link to.
LocalId == "a1"
Peers == {"b1", "c1"}

\* Relay object ids available to the heap.
MaxRelayObjs == 3
\* Number of events the application hands to send/broadcast.
MaxOffers == 2

\* A connection passed to the relay is the repository's ConnectionHandler
\* ("handler") or any other object with a send_message attribute, as the
\* tests' Mock ("stub").
ConnKinds == {"stub", "handler"}

\* Positional arguments _forward_event passes to connection.send_message,
\* and the parameters ConnectionHandler.send_message declares after self.
ForwardCallArgs == 1
SendMessageParams == 2

Range(f) == {f[x] : x \in DOMAIN f}

Restrict(f, S) == [x \in S |-> f[x]]

\* ------------------------------------------------------------ InputEvent
\* A datetime: seconds of wall-clock time, the microsecond field, and the
\* UTC offset in minutes of an aware value.
DateTime(second, microsecond, aware, offset) ==
    [second |-> second, microsecond |-> microsecond, aware |-> aware,
     offset |-> offset]

\* datetime.now(timezone.utc) at second n.
UtcNow(n) == DateTime(n, 0, TRUE, 0)

\* isoformat(timespec='seconds'): the fraction is never written.
isoformat_seconds(dt) ==
    [clock |-> dt.second,
     fraction |-> <<>>,
     zone |-> IF dt.aware
              THEN <<IF dt.offset < 0 THEN "-" ELSE "+",
                     (IF dt.offset < 0 THEN -dt.offset ELSE dt.offset) \div 60,
                     (IF dt.offset < 0 THEN -dt.offset ELSE dt.offset) % 60>>
              ELSE <<>>]

\* datetime.isoformat(): the text "YYYY-MM-DDTHH:MM:SS", then ".ffffff" when
\* the microsecond field is not 0, then "+HH:MM" / "-HH:MM" for an aware
\* value. The text is kept as its three parts.
isoformat(dt) ==
    [clock |-> dt.second,
     fraction |-> IF dt.microsecond = 0 THEN <<>> ELSE <<dt.microsecond>>,
     zone |-> IF dt.aware
              THEN <<IF dt.offset < 0 THEN "-" ELSE "+",
                     (IF dt.offset < 0 THEN -dt.offset ELSE dt.offset) \div 60,
                     (IF dt.offset < 0 THEN -dt.offset ELSE dt.offset) % 60>>
              ELSE <<>>]

\* datetime.fromisoformat(text)
fromisoformat(text) ==
    DateTime(text.clock,
             IF text.fraction = <<>> THEN 0 ELSE text.fraction[1],
             text.zone # <<>>,
             IF text.zone = <<>> THEN 0
             ELSE (IF text.zone[1] = "-" THEN -1 ELSE 1)
                      * (text.zone[2] * 60 + text.zone[3]))

\* The n-th KEY_PRESS the local device captures.
KeyPress(n) ==
    [id |-> n, event_type |-> [member |-> "KEY_PRESS"],
     source_device_id |-> LocalId, target_device_id |-> "b1",
     payload |-> [keycode |-> "A"], timestamp |-> UtcNow(n),
     is_encrypted |-> TRUE]

\* InputEvent.to_dict: the enum member becomes its value, the timestamp its
\* ISO-8601 string.
to_dict(e) ==
    [id |-> e.id, event_type |-> e.event_type.member,
     source_device_id |-> e.source_device_id,
     target_device_id |-> e.target_device_id,
     payload |-> e.payload, timestamp |-> isoformat(e.timestamp),
     is_encrypted |-> e.is_encrypted]

\* InputEvent.from_dict: the inverse conversions.
from_dict(d) ==
    [id |-> d.id, event_type |-> [member |-> d.event_type],
     source_device_id |-> d.source_device_id,
     target_device_id |-> d.target_device_id,
     payload |-> d.payload, timestamp |-> fromisoformat(d.timestamp),
     is_encrypted |-> d.is_encrypted]

\* ------------------------------------------------------ ConnectionHandler
\* Frames a peer's socket buffers before the sender's application stops
\* writing.
MaxFrames == 2

\* ConnectionHandler.send_message on a connected socket: one length-prefixed
\* frame carrying msg_type and data (the frame's timestamp is not read by
\* any receiver and is left out).
send_message(msg_type, data) == <<[msg_type |-> msg_type, data |-> data]>>

\* ConnectionHandler.receive_message on the bytes w the socket holds: the
\* first whole frame, or nothing (None) when the wait times out.
receive_message(w) == IF w = <<>> THEN <<>> ELSE <<Head(w)>>

\* --------------------------------------------------- InputRelay (object)
\* Manager-level relay configurations: every bounded queue size, the
\* largest batch size, one send attempt per event.
MgrConfigs ==
    {c \in RelayConfigs : /\ c.max_queue_size >= 1
                          /\ c.batch_size = MaxBatchSize
                          /\ c.max_retries = 1}

\* InputRelay.__init__
NewRelay(d, cfg, conn) ==
    [device |-> d, config |-> cfg, connection |-> conn, is_running |-> FALSE,
     event_queue |-> <<>>, batch_buffer |-> <<>>, metrics |-> NewMetrics]

\* InputRelay.start: the worker thread is started.
relay_start(r) == [r EXCEPT !.is_running = TRUE]

\* InputRelay.queue_event on a relay object.
relay_queue_event(r, e) ==
    LET q == queue_event(r.is_running, r.event_queue, r.metrics,
                         r.config.max_queue_size, e)
    IN [relay |-> [r EXCEPT !.event_queue = q.queue, !.metrics = q.metrics],
        ret |-> q.ret]

\* The call self.connection.send_message({...}) of _forward_event: on a
\* ConnectionHandler a call whose arguments do not fit the signature raises
\* TypeError before the method body runs; otherwise send_message writes one
\* frame. A stub returns or raises as its owner set it up (stub_ok).
send_message_call(conn, e, stub_ok) ==
    IF conn = "handler"
    THEN IF ForwardCallArgs # SendMessageParams
         THEN [raised |-> TRUE, frames |-> <<>>]
         ELSE [raised |-> FALSE,
               frames |-> send_message("INPUT_EVENT", to_dict(e))]
    ELSE [raised |-> ~stub_ok, frames |-> <<>>]

\* InputRelay._forward_event to its result: True when a send attempt
\* returned, False when the retry budget is empty or every attempt raised.
forward_event(r, e, stub_ok) ==
    LET call == send_message_call(r.connection, e, stub_ok)
    IN IF r.config.max_retries = 0 \/ call.raised
       THEN [ok |-> FALSE, frames |-> <<>>]
       ELSE [ok |-> TRUE, frames |-> call.frames]

RECURSIVE FlushFrames(_, _, _, _)
FlushFrames(r, batch, oks, i) ==
    IF i > Len(batch) THEN <<>>
    ELSE forward_event(r, batch[i], oks[i]).frames
             \o FlushFrames(r, batch, oks, i + 1)

\* InputRelay._flush_batch run to completion: every event of the batch is
\* forwarded in order and counted forwarded or failed.
relay_flush(r, oks) ==
    LET batch == r.batch_buffer
        good == {i \in 1..Len(batch) : forward_event(r, batch[i], oks[i]).ok}
    IN [relay |-> [r EXCEPT
                     !.batch_buffer = <<>>,
                     !.metrics.events_forwarded = @ + Cardinality(good),
                     !.metrics.events_failed =
                         @ + (Len(batch) - Cardinality(good))],
        frames |-> FlushFrames(r, batch, oks, 1)]

\* One pass of the body of _relay_loop's while.
relay_iteration(r, oks) ==
    IF r.event_queue # <<>>
    THEN LET got == [r EXCEPT !.event_queue = Tail(@),
                              !.batch_buffer = Append(@, Head(r.event_queue))]
         IN IF Len(got.batch_buffer) >= got.config.batch_size
            THEN relay_flush(got, oks)
            ELSE [relay |-> got, frames |-> <<>>]
    ELSE IF r.batch_buffer # <<>>
         THEN relay_flush(r, oks)
         ELSE [relay |-> r, frames |-> <<>>]

\* InputRelay.stop with the worker between two passes of its loop: the
\* caller flushes the batch, the worker sees is_running False and exits.
relay_stop(r, oks) ==
    IF ~r.is_running
    THEN [relay |-> r, frames |-> <<>>, ret |-> FALSE]
    ELSE LET f == relay_flush([r EXCEPT !.is_running = FALSE], oks)
         IN [relay |-> f.relay, frames |-> f.frames, ret |-> TRUE]

\* The per-event stub outcomes a flush of n events may meet.
FlushOutcomes(n) == [1..n -> BOOLEAN]

\* The number of events relay object r hands to _forward_event when it is
\* stopped, and when its worker makes one pass.
StopFlushLen(r) == IF r.is_running THEN Len(r.batch_buffer) ELSE 0

PassFlushLen(r) ==
    IF r.event_queue # <<>>
    THEN IF Len(r.batch_buffer) + 1 >= r.config.batch_size
         THEN Len(r.batch_buffer) + 1 ELSE 0
    ELSE Len(r.batch_buffer)

Max(S) == CHOOSE x \in S : \A y \in S : y <= x

\* ------------------------------------------------------------ the heap
FreeObjs(h) == (1..MaxRelayObjs) \ DOMAIN h

NewObj(h) == CHOOSE o \in FreeObjs(h) : \A p \in FreeObjs(h) : o <= p

\* Objects that are neither referenced nor running are reclaimed.
Collect(h, rl, dl) ==
    Restrict(h, {o \in DOMAIN h :
                    \/ o \in Range(rl)
                    \/ \E d \in DOMAIN dl : dl[d].relay = o
                    \/ h[o].is_running})

\* ---------------------------------------------------------- RelayManager
\* add_relay without the check for an existing relay.
add_relay_overwrite(h, rl, d, cfg, conn) ==
    LET o == NewObj(h)
    IN [heap |-> h @@ (o :> relay_start(NewRelay(d, cfg, conn))),
        relays |-> [x \in DOMAIN rl \cup {d} |-> IF x = d THEN o ELSE rl[x]],
        ret |-> o]

\* RelayManager.add_relay
add_relay(h, rl, d, cfg, conn) ==
    IF d \in DOMAIN rl
    THEN [heap |-> h, relays |-> rl, ret |-> rl[d]]
    ELSE LET o == NewObj(h)
         IN [heap |-> h @@ (o :> relay_start(NewRelay(d, cfg, conn))),
             relays |-> rl @@ (d :> o),
             ret |-> o]

\* RelayManager.remove_relay
remove_relay(h, rl, d, oks) ==
    IF d \notin DOMAIN rl
    THEN [heap |-> h, relays |-> rl, ret |-> FALSE, frames |-> <<>>]
    ELSE LET st == relay_stop(h[rl[d]], oks)
         IN [heap |-> [h EXCEPT ![rl[d]] = st.relay],
             relays |-> Restrict(rl, DOMAIN rl \ {d}),
             ret |-> TRUE,
             frames |-> st.frames]

\* broadcast_event counting every relay it offered the event to.
broadcast_event_count_all(h, rl, e) ==
    [heap |-> [o \in DOMAIN h |->
                  IF o \in Range(rl) THEN relay_queue_event(h[o], e).relay
                  ELSE h[o]],
     ret |-> Cardinality(DOMAIN rl)]

\* RelayManager.broadcast_event: queue_event on every relay of the map; the
\* count of those that returned True.
broadcast_event(h, rl, e) ==
    [heap |-> [o \in DOMAIN h |->
                  IF o \in Range(rl) THEN relay_queue_event(h[o], e).relay
                  ELSE h[o]],
     ret |-> Cardinality({d \in DOMAIN rl : relay_queue_event(h[rl[d]], e).ret})]

\* RelayManager.shutdown: stop every relay, clear the map.
shutdown(h, rl, oks) ==
    [heap |-> [o \in DOMAIN h |->
                  IF o \in Range(rl) THEN relay_stop(h[o], oks).relay ELSE h[o]],
     frames |-> [d \in Peers |->
                  IF d \in DOMAIN rl THEN relay_stop(h[rl[d]], oks).frames
                  ELSE <<>>],
     ret |-> TRUE]

EmptyMap == [d \in {} |-> 0]

Flip == ~last_call.flip

SysInit ==
    /\ heap = EmptyMap
    /\ relays = EmptyMap
    /\ device_links = EmptyMap
    /\ last_call = [op |-> "none", device |-> "none", ret |-> FALSE, flip |-> FALSE,
                    callbacks |-> <<>>]
    /\ offered = 0
    /\ wire = [d \in Peers |-> <<>>]
    /\ dispatched = [d \in Peers |-> <<>>]

TimeInit == get_waited = 0 /\ batch_age = 0

\* A caller of the RelayManager adds a relay for device d.
MgrAddRelay(d, cfg, conn) ==
    /\ d \in DOMAIN relays \/ FreeObjs(heap) # {}
    /\ LET r == add_relay(heap, relays, d, cfg, conn)
       IN /\ heap' = r.heap
          /\ relays' = r.relays
          /\ last_call' = [op |-> "add_relay", device |-> d, ret |-> r.ret,
                           flip |-> Flip, callbacks |-> <<>>]
    /\ UNCHANGED <<device_links, offered, wire, dispatched>>
    /\ UNCHANGED <<relayVars, timeVars, restVars>>

MgrRemoveRelay(d, oks) ==
    /\ LET r == remove_relay(heap, relays, d, oks)
       IN /\ heap' = Collect(r.heap, r.relays, device_links)
          /\ relays' = r.relays
          /\ wire' = [wire EXCEPT ![d] = @ \o r.frames]
          /\ last_call' = [op |-> "remove_relay", device |-> d, ret |-> r.ret,
                           flip |-> Flip, callbacks |-> <<>>]
    /\ UNCHANGED <<device_links, offered, dispatched>>
    /\ UNCHANGED <<relayVars, timeVars, restVars>>

MgrBroadcast ==
    /\ offered < MaxOffers
    /\ LET r == broadcast_event(heap, relays, KeyPress(offered + 1))
       IN /\ heap' = r.heap
          /\ last_call' = [op |-> "broadcast_event", device |-> "all",
                           ret |-> r.ret, flip |-> Flip, callbacks |-> <<>>]
    /\ offered' = offered + 1
    /\ UNCHANGED <<relays, device_links, wire, dispatched>>
    /\ UNCHANGED <<relayVars, timeVars, restVars>>

MgrShutdown(oks) ==
    /\ LET r == shutdown(heap, relays, oks)
       IN /\ heap' = Collect(r.heap, EmptyMap, device_links)
          /\ wire' = [d \in Peers |-> wire[d] \o r.frames[d]]
          /\ last_call' = [op |-> "shutdown", device |-> "all", ret |-> r.ret,
                           flip |-> Flip, callbacks |-> <<>>]
    /\ relays' = EmptyMap
    /\ UNCHANGED <<device_links, offered, dispatched>>
    /\ UNCHANGED <<relayVars, timeVars, restVars>>

\* The worker of relay object o makes one pass of its loop.
RelayWorker(o, oks) ==
    /\ o \in DOMAIN heap
    /\ heap[o].is_running
    /\ heap[o].event_queue # <<>> \/ heap[o].batch_buffer # <<>>
    /\ LET r == relay_iteration(heap[o], oks)
       IN /\ heap' = [heap EXCEPT ![o] = r.relay]
          /\ wire' = [wire EXCEPT ![heap[o].device] = @ \o r.frames]
    /\ UNCHANGED <<relays, device_links, last_call, offered, dispatched>>
    /\ UNCHANGED <<relayVars, timeVars, restVars>>

MgrInit == RelayInit /\ config = [max_queue_size |-> 0, batch_size |-> 1, max_retries |-> 0]
           /\ SysInit /\ TimeInit /\ RecvInit /\ DiscIdle /\ ExtIdle

\* The RelayManager driven directly, with stub connections.
MgrNext ==
    \/ \E d \in Peers, cfg \in MgrConfigs : MgrAddRelay(d, cfg, "stub")
    \/ \E d \in Peers :
           \E oks \in FlushOutcomes(IF d \in DOMAIN relays
                                    THEN StopFlushLen(heap[relays[d]]) ELSE 0) :
               MgrRemoveRelay(d, oks)
    \/ MgrBroadcast
    \/ \E oks \in FlushOutcomes(Max({0} \cup {StopFlushLen(heap[o]) :
                                                o \in Range(relays)})) :
           MgrShutdown(oks)
    \/ \E o \in DOMAIN heap :
           \E oks \in FlushOutcomes(PassFlushLen(heap[o])) : RelayWorker(o, oks)

SpecMgr == MgrInit /\ [][MgrNext]_vars

\* ---------------------------------------------------- DeviceCommunicator
\* DeviceLink as establish_connection builds it.
NewLink(conn, o) == [connection |-> conn, relay |-> o, is_active |-> TRUE]

\* InputRelay.start when Thread.start() may raise (started = FALSE): the
\* except branch resets is_running.
relay_start_result(r, started) == [r EXCEPT !.is_running = started]

\* RelayManager.add_relay with a worker thread that may fail to start: the
\* result of relay.start() is not looked at.
add_relay_started(h, rl, d, cfg, conn, started) ==
    IF d \in DOMAIN rl
    THEN [heap |-> h, relays |-> rl, ret |-> rl[d]]
    ELSE LET o == NewObj(h)
         IN [heap |-> h @@ (o :> relay_start_result(NewRelay(d, cfg, conn),
                                                     started)),
             relays |-> rl @@ (d :> o),
             ret |-> o]

\* A callback of the communicator, as the history records it.
Callback(kind, d) == [kind |-> kind, device |-> d]

\* establish_connection without the check for an existing link.
establish_connection_noduplicate_check(h, rl, dl, d, cfg, conn, started, cb_raises) ==
    LET a == add_relay_started(h, rl, d, cfg, conn, started)
    IN [heap |-> a.heap, relays |-> a.relays,
        links |-> [x \in DOMAIN dl \cup {d} |->
                      IF x = d THEN NewLink(conn, a.ret) ELSE dl[x]],
        ret |-> TRUE, callbacks |-> <<Callback("connected", d)>>]

\* DeviceCommunicator.establish_connection. started: the relay's worker
\* thread starts; cb_raises: on_device_connected raises, which the except
\* clause turns into on_device_error and a False result.
establish_connection(h, rl, dl, d, cfg, conn, started, cb_raises) ==
    IF d \in DOMAIN dl
    THEN [heap |-> h, relays |-> rl, links |-> dl, ret |-> FALSE,
          callbacks |-> <<>>]
    ELSE LET a == add_relay_started(h, rl, d, cfg, conn, started)
         IN [heap |-> a.heap, relays |-> a.relays,
             links |-> dl @@ (d :> NewLink(conn, a.ret)),
             ret |-> ~cb_raises,
             callbacks |-> IF cb_raises
                           THEN <<Callback("connected", d), Callback("error", d)>>
                           ELSE <<Callback("connected", d)>>]

\* DeviceCommunicator.close_connection: stop the link's relay, remove the
\* device's relay from the manager, mark the link inactive, call
\* on_device_disconnected, delete the link. cb_raises: the callback raises
\* and the except clause returns False before the link is deleted.
close_connection(h, rl, dl, d, oks, cb_raises) ==
    IF d \notin DOMAIN dl
    THEN [heap |-> h, relays |-> rl, links |-> dl, ret |-> FALSE,
          frames |-> <<>>, callbacks |-> <<>>]
    ELSE LET st == relay_stop(h[dl[d].relay], oks)
             h1 == [h EXCEPT ![dl[d].relay] = st.relay]
             rm == remove_relay(h1, rl, d, oks)
         IN [heap |-> rm.heap, relays |-> rm.relays,
             links |-> IF cb_raises
                       THEN [dl EXCEPT ![d].is_active = FALSE]
                       ELSE Restrict(dl, DOMAIN dl \ {d}),
             ret |-> ~cb_raises,
             frames |-> st.frames \o rm.frames,
             callbacks |-> <<Callback("disconnected", d)>>]

\* DeviceCommunicator.send_input_event
send_input_event(h, dl, d, e) ==
    IF d \notin DOMAIN dl
    THEN [heap |-> h, ret |-> FALSE]
    ELSE IF ~dl[d].is_active
         THEN [heap |-> h, ret |-> FALSE]
         ELSE LET q == relay_queue_event(h[dl[d].relay], e)
              IN [heap |-> [h EXCEPT ![dl[d].relay] = q.relay], ret |-> q.ret]

\* DeviceCommunicator.broadcast_input_event
broadcast_input_event(h, rl, e) == broadcast_event(h, rl, e)

\* InputEventReceiver._validate_event
validate_event(e) ==
    /\ e.event_type.member # ""
    /\ e.source_device_id # "" /\ e.target_device_id # ""
    /\ DOMAIN e.payload # {}

\* InputEventReceiver.process_received_event with one registered handler:
\* the calls the handler has received.
process_received_event(calls, e) ==
    IF validate_event(e) THEN Append(calls, e) ELSE calls

CommEstablish(d, cfg, conn, started, cb_raises) ==
    /\ d \in DOMAIN device_links \/ d \in DOMAIN relays \/ FreeObjs(heap) # {}
    /\ LET r == establish_connection(heap, relays, device_links, d, cfg, conn,
                                     started, cb_raises)
       IN /\ heap' = r.heap
          /\ relays' = r.relays
          /\ device_links' = r.links
          /\ last_call' = [op |-> "establish_connection", device |-> d,
                           ret |-> r.ret, flip |-> Flip,
                           callbacks |-> r.callbacks]
    /\ UNCHANGED <<offered, wire, dispatched>>
    /\ UNCHANGED <<relayVars, timeVars, restVars>>

CommClose(d, oks, cb_raises) ==
    /\ LET r == close_connection(heap, relays, device_links, d, oks, cb_raises)
       IN /\ heap' = Collect(r.heap, r.relays, r.links)
          /\ relays' = r.relays
          /\ device_links' = r.links
          /\ wire' = [wire EXCEPT ![d] = @ \o r.frames]
          /\ last_call' = [op |-> "close_connection", device |-> d,
                           ret |-> r.ret, flip |-> Flip,
                           callbacks |-> r.callbacks]
    /\ UNCHANGED <<offered, dispatched>>
    /\ UNCHANGED <<relayVars, timeVars, restVars>>

CommSend(d) ==
    /\ offered < MaxOffers
    /\ LET r == send_input_event(heap, device_links, d, KeyPress(offered + 1))
       IN /\ heap' = r.heap
          /\ last_call' = [op |-> "send_input_event", device |-> d,
                           ret |-> r.ret, flip |-> Flip, callbacks |-> <<>>]
    /\ offered' = offered + 1
    /\ UNCHANGED <<relays, device_links, wire, dispatched>>
    /\ UNCHANGED <<relayVars, timeVars, restVars>>

CommBroadcast ==
    /\ offered < MaxOffers
    /\ LET r == broadcast_input_event(heap, relays, KeyPress(offered + 1))
       IN /\ heap' = r.heap
          /\ last_call' = [op |-> "broadcast_input_event", device |-> "all",
                           ret |-> r.ret, flip |-> Flip, callbacks |-> <<>>]
    /\ offered' = offered + 1
    /\ UNCHANGED <<relays, device_links, wire, dispatched>>
    /\ UNCHANGED <<relayVars, timeVars, restVars>>

\* The application writes a message of its own on the link's connection:
\* its hello, or an input event (id 0) it serialised itself.
HandlerSend(d, msg_type) ==
    /\ d \in DOMAIN device_links
    /\ Len(wire[d]) + Len(dispatched[d]) < MaxFrames
    /\ wire' = [wire EXCEPT ![d] = @ \o
                   send_message(msg_type,
                                IF msg_type = "INPUT_EVENT"
                                THEN to_dict(KeyPress(0))
                                ELSE [device_id |-> LocalId])]
    /\ UNCHANGED <<heap, relays, device_links, last_call, offered, dispatched>>
    /\ UNCHANGED <<relayVars, timeVars, restVars>>

\* The peer's receive loop: one frame is read; an INPUT_EVENT becomes an
\* InputEvent and is handed to the peer's InputEventReceiver.
PeerReceive(d) ==
    /\ receive_message(wire[d]) # <<>>
    /\ LET msg == receive_message(wire[d])[1]
       IN dispatched' =
            [dispatched EXCEPT ![d] =
                IF msg.msg_type = "INPUT_EVENT"
                THEN process_received_event(@, from_dict(msg.data))
                ELSE @]
    /\ wire' = [wire EXCEPT ![d] = Tail(@)]
    /\ UNCHANGED <<heap, relays, device_links, last_call, offered>>
    /\ UNCHANGED <<relayVars, timeVars, restVars>>

\* The peer of the two-device scenario: a1 links to b1 over
\* ConnectionHandlers.
E2EPeers == {"b1"}

E2ENext ==
    \/ \E d \in E2EPeers, cfg \in MgrConfigs, started, cb_raises \in BOOLEAN :
           CommEstablish(d, cfg, "handler", started, cb_raises)
    \/ \E d \in E2EPeers :
           \E oks \in FlushOutcomes(IF d \in DOMAIN device_links
                                    THEN StopFlushLen(heap[device_links[d].relay])
                                    ELSE 0) :
               \E cb_raises \in BOOLEAN : CommClose(d, oks, cb_raises)
    \/ \E d \in E2EPeers : CommSend(d)
    \/ CommBroadcast
    \/ \E o \in DOMAIN heap :
           \E oks \in FlushOutcomes(PassFlushLen(heap[o])) : RelayWorker(o, oks)
    \/ \E d \in E2EPeers, mt \in {"HELLO", "INPUT_EVENT"} : HandlerSend(d, mt)
    \/ \E d \in E2EPeers : PeerReceive(d)

SpecE2E == MgrInit /\ [][E2ENext]_vars

\* DeviceCommunicator.shutdown: close_connection for every linked id (an id
\* without a link is left alone by close_connection), then
\* RelayManager.shutdown; the result is True. raising: the ids whose
\* disconnected callback raises inside close_connection, which catches it.
CommShutdown(oks, raising) ==
    /\ \E b \in {close_connection(heap, relays, device_links, "b1", oks,
                                   "b1" \in raising)} :
       \E c \in {close_connection(b.heap, b.relays, b.links, "c1", oks,
                                   "c1" \in raising)} :
       \E m \in {shutdown(c.heap, c.relays, oks)} :
          /\ heap' = Collect(m.heap, EmptyMap, c.links)
          /\ relays' = EmptyMap
          /\ device_links' = c.links
          /\ wire' = [d \in Peers |->
                         wire[d] \o (IF d = "b1" THEN b.frames ELSE c.frames)
                                 \o m.frames[d]]
          /\ last_call' = [op |-> "communicator_shutdown", device |-> "all",
                           ret |-> TRUE, flip |-> Flip,
                           callbacks |-> b.callbacks \o c.callbacks]
    /\ UNCHANGED <<offered, dispatched>>
    /\ UNCHANGED <<relayVars, timeVars, restVars>>

CommNext ==
    \/ E2ENext
    \/ \E oks \in FlushOutcomes(Max({0} \cup {StopFlushLen(heap[o]) :
                                                o \in DOMAIN heap})) :
           \E raising \in SUBSET E2EPeers : CommShutdown(oks, raising)

SpecComm == MgrInit /\ [][CommNext]_vars

\* ------------------------------------------------- the worker's clock
\* Time advances in ticks; batch_timeout_ms is BatchTimeoutTicks ticks.
BatchTimeoutTicks == 2

\* The largest batch size of the timed relay.
LingerBatchSize == MaxBatchSize + 1

LingerConfigs ==
    [max_queue_size : 0..MaxQueueSize, batch_size : 1..LingerBatchSize,
     max_retries : {1}]

LingerInit ==
    /\ RelayInit
    /\ config = [max_queue_size |-> 0, batch_size |-> 1, max_retries |-> 0]
    /\ \E cfg \in LingerConfigs :
          /\ heap = (1 :> relay_start(NewRelay("b1", cfg, "stub")))
          /\ relays = ("b1" :> 1)
    /\ device_links = EmptyMap
    /\ last_call = [op |-> "none", device |-> "none", ret |-> FALSE,
                    flip |-> FALSE, callbacks |-> <<>>]
    /\ offered = 0
    /\ wire = [d \in Peers |-> <<>>]
    /\ dispatched = [d \in Peers |-> <<>>]
    /\ TimeInit /\ RecvInit /\ DiscIdle /\ ExtIdle

\* A producer calls queue_event at any moment.
LingerQueueEvent ==
    /\ offered < MaxEvents
    /\ heap' = [heap EXCEPT ![1] = relay_queue_event(@, KeyPress(offered + 1)).relay]
    /\ offered' = offered + 1
    /\ UNCHANGED <<relays, device_links, last_call, wire, dispatched>>
    /\ UNCHANGED <<relayVars, timeVars, restVars>>

\* event_queue.get(timeout=...) returns an event as soon as there is one:
\* the pass appends it, flushes a full batch, and the next get starts a
\* fresh wait.
LingerGet(oks) ==
    /\ heap[1].event_queue # <<>>
    /\ LET r == relay_iteration(heap[1], oks)
       IN /\ heap' = [heap EXCEPT ![1] = r.relay]
          /\ batch_age' = IF r.relay.batch_buffer = <<>> \/ heap[1].batch_buffer = <<>>
                          THEN 0 ELSE batch_age
    /\ get_waited' = 0
    /\ UNCHANGED <<relays, device_links, last_call, offered, wire, dispatched>>
    /\ UNCHANGED <<relayVars, restVars>>

\* One tick passes while the worker waits in get on an empty queue.
LingerTick ==
    /\ heap[1].event_queue = <<>>
    /\ get_waited < BatchTimeoutTicks
    /\ get_waited' = get_waited + 1
    /\ batch_age' = IF heap[1].batch_buffer = <<>> THEN 0 ELSE batch_age + 1
    /\ UNCHANGED <<sysVars, relayVars, restVars>>

\* get raises queue.Empty once it has waited batch_timeout_ms: a non-empty
\* batch is flushed.
LingerTimeout(oks) ==
    /\ heap[1].event_queue = <<>>
    /\ get_waited = BatchTimeoutTicks
    /\ heap' = [heap EXCEPT ![1] = relay_iteration(@, oks).relay]
    /\ get_waited' = 0
    /\ batch_age' = 0
    /\ UNCHANGED <<relays, device_links, last_call, offered, wire, dispatched>>
    /\ UNCHANGED <<relayVars, restVars>>

LingerNext ==
    \/ LingerQueueEvent
    \/ \E oks \in FlushOutcomes(PassFlushLen(heap[1])) : LingerGet(oks)
    \/ LingerTick
    \/ \E oks \in FlushOutcomes(PassFlushLen(heap[1])) : LingerTimeout(oks)

SpecLinger == LingerInit /\ [][LingerNext]_vars

\* ---------------------------------------------------- InputEventReceiver
\* Handlers an application registers, and how many registrations the list
\* takes.
HandlerIds == {"h1", "h2"}
MaxHandlers == 3

\* Events handed to process_received_event: a KEY_PRESS, and the same event
\* after its payload or its source id was cleared.
ReceivedEvents ==
    {KeyPress(1),
     [KeyPress(1) EXCEPT !.payload = <<>>],
     [KeyPress(1) EXCEPT !.source_device_id = ""]}

\* InputEventReceiver.register_handler
register_handler(hs, h) == Append(hs, h)

\* InputEventReceiver.unregister_handler: list.remove drops the first
\* occurrence.
unregister_handler(hs, h) ==
    IF \E i \in 1..Len(hs) : hs[i] = h
    THEN LET k == CHOOSE i \in 1..Len(hs) :
                      hs[i] = h /\ \A j \in 1..(i - 1) : hs[j] # h
         IN SubSeq(hs, 1, k - 1) \o SubSeq(hs, k + 1, Len(hs))
    ELSE hs

\* The handler loop without the try/except around each call: the first
\* raising handler ends the loop and its exception leaves the method.
RECURSIVE call_handlers_unguarded(_, _, _)
call_handlers_unguarded(hs, raising, i) ==
    IF i > Len(hs) THEN [calls |-> <<>>, propagated |-> FALSE]
    ELSE IF hs[i] \in raising
         THEN [calls |-> <<hs[i]>>, propagated |-> TRUE]
         ELSE LET rest == call_handlers_unguarded(hs, raising, i + 1)
              IN [calls |-> <<hs[i]>> \o rest.calls,
                  propagated |-> rest.propagated]

\* The handler loop of process_received_event from position i: each handler
\* is called inside its own try/except, which logs and goes on.
RECURSIVE call_handlers(_, _, _)
call_handlers(hs, raising, i) ==
    IF i > Len(hs) THEN [calls |-> <<>>, propagated |-> FALSE]
    ELSE LET rest == call_handlers(hs, raising, i + 1)
         IN [calls |-> <<hs[i]>> \o rest.calls,
             propagated |-> rest.propagated]

\* InputEventReceiver.process_received_event with the registered handlers
\* hs, those of raising raising when called.
process_event(hs, raising, e) ==
    IF ~validate_event(e)
    THEN [calls |-> <<>>, propagated |-> FALSE]
    ELSE call_handlers(hs, raising, 1)

RecvRegister(h) ==
    /\ Len(event_handlers) < MaxHandlers
    /\ event_handlers' = register_handler(event_handlers, h)
    /\ UNCHANGED recv_last
    /\ UNCHANGED <<relayVars, sysVars, timeVars, discVars, extVars>>

RecvUnregister(h) ==
    /\ event_handlers' = unregister_handler(event_handlers, h)
    /\ UNCHANGED recv_last
    /\ UNCHANGED <<relayVars, sysVars, timeVars, discVars, extVars>>

RecvProcess(e, raising) ==
    /\ LET r == process_event(event_handlers, raising, e)
       IN recv_last' = [flip |-> ~recv_last.flip, valid |-> validate_event(e),
                        handlers |-> event_handlers, raising |-> raising,
                        calls |-> r.calls, propagated |-> r.propagated]
    /\ UNCHANGED event_handlers
    /\ UNCHANGED <<relayVars, sysVars, timeVars, discVars, extVars>>

RecvNext ==
    \/ \E h \in HandlerIds : RecvRegister(h)
    \/ \E h \in HandlerIds : RecvUnregister(h)
    \/ \E e \in ReceivedEvents, raising \in SUBSET HandlerIds :
           RecvProcess(e, raising)

SpecRecv == MgrInit /\ [][RecvNext]_vars

\* ------------------------------------------------------ DiscoveryService
\* Service instance names seen on the network (the part before "._kms").
ServiceNames == {"n1", "n2"}

\* device_id values of TXT records that are not well-formed UUIDs: missing
\* (decoded as the empty string) and malformed.
InvalidIds == {"", "not-a-uuid"}

\* OFFLINE_THRESHOLD, in ticks of the clock.
OfflineThresholdTicks == 1

\* start() calls made in a run, and listeners an application adds.
MaxStarts == 2
MaxListeners == 2

\* validate_uuid: a1, b1 and c1 stand for well-formed UUIDs.
validate_uuid(id) == id \in Peers \cup {LocalId}

\* dict operations on discovered_devices, kept in insertion order.
Keys(dd) == {dd[i].id : i \in 1..Len(dd)}

Get(dd, id) == dd[CHOOSE i \in 1..Len(dd) : dd[i].id = id]

Put(dd, dev) ==
    IF dev.id \in Keys(dd)
    THEN [i \in 1..Len(dd) |-> IF dd[i].id = dev.id THEN dev ELSE dd[i]]
    ELSE Append(dd, dev)

Del(dd, id) == SelectSeq(dd, LAMBDA x : x.id # id)

Note(l, kind, id) == [listener |-> l, kind |-> kind, id |-> id]

\* The listener loop without its try/except: the first raising listener
\* ends the loop.
RECURSIVE notify_unguarded(_, _, _, _, _)
notify_unguarded(kind, id, n, raising, l) ==
    IF l > n THEN <<>>
    ELSE IF l \in raising THEN <<Note(l, kind, id)>>
         ELSE <<Note(l, kind, id)>> \o notify_unguarded(kind, id, n, raising, l + 1)

\* "for listener in self.listeners: try: listener(kind, device) except
\* Exception: log": listeners l..n are called in order, raising or not.
RECURSIVE notify(_, _, _, _, _)
notify(kind, id, n, raising, l) ==
    IF l > n THEN <<>>
    ELSE <<Note(l, kind, id)>> \o notify(kind, id, n, raising, l + 1)

\* DeviceRepository.create: the INSERT fails on a second row with the same
\* mac_address (UNIQUE) or id (PRIMARY KEY).
create_fails(repo, id, row) ==
    \/ id \in DOMAIN repo
    \/ \E x \in DOMAIN repo : repo[x].mac_address = row.mac_address

Unchanged(dd, repo) == [dd |-> dd, repo |-> repo, notes |-> <<>>, changed |-> {}]

\* _on_device_added that tracks the local device like any other.
on_device_added_noself(dd, repo, n, name, info, raising) ==
    LET id == info.device_id
        row == [name |-> name, mac_address |-> "", is_registered |-> TRUE]
    IN IF ~info.present \/ ~validate_uuid(id) THEN Unchanged(dd, repo)
       ELSE IF id \in DOMAIN repo
            THEN [dd |-> Put(dd, [id |-> id, name |-> repo[id].name,
                                  is_registered |-> TRUE, age |-> 0]),
                  repo |-> [repo EXCEPT ![id].is_registered = TRUE],
                  notes |-> notify("device_added", id, n, raising, 1),
                  changed |-> {[kind |-> "device_added", id |-> id]}]
            ELSE IF create_fails(repo, id, row) THEN Unchanged(dd, repo)
                 ELSE [dd |-> Put(dd, [id |-> id, name |-> name,
                                       is_registered |-> TRUE, age |-> 0]),
                       repo |-> repo @@ (id :> row),
                       notes |-> notify("device_added", id, n, raising, 1),
                       changed |-> {[kind |-> "device_added", id |-> id]}]

\* DiscoveryService._on_device_added for service instance name and the
\* service info zeroconf returns for it. No info, the local device's id, a
\* Device that fails validation and a failing INSERT all end the handler
\* (return, or the outer except) before anything is stored or notified.
on_device_added(dd, repo, n, name, info, raising) ==
    LET id == info.device_id
        row == [name |-> name, mac_address |-> "", is_registered |-> TRUE]
    IN IF ~info.present THEN Unchanged(dd, repo)
       ELSE IF id = LocalId THEN Unchanged(dd, repo)
       ELSE IF ~validate_uuid(id) THEN Unchanged(dd, repo)
       ELSE IF id \in DOMAIN repo
            THEN [dd |-> Put(dd, [id |-> id, name |-> repo[id].name,
                                  is_registered |-> TRUE, age |-> 0]),
                  repo |-> [repo EXCEPT ![id].is_registered = TRUE],
                  notes |-> notify("device_added", id, n, raising, 1),
                  changed |-> {[kind |-> "device_added", id |-> id]}]
            ELSE IF create_fails(repo, id, row) THEN Unchanged(dd, repo)
                 ELSE [dd |-> Put(dd, [id |-> id, name |-> name,
                                       is_registered |-> TRUE, age |-> 0]),
                       repo |-> repo @@ (id :> row),
                       notes |-> notify("device_added", id, n, raising, 1),
                       changed |-> {[kind |-> "device_added", id |-> id]}]

\* DiscoveryService._on_device_removed: the first discovered device whose
\* stored name is the withdrawn service's name is deleted from the map,
\* marked unregistered in the table, and reported.
on_device_removed(dd, repo, n, name, raising) ==
    IF \E i \in 1..Len(dd) : dd[i].name = name
    THEN LET k == CHOOSE i \in 1..Len(dd) :
                      dd[i].name = name /\ \A j \in 1..(i - 1) : dd[j].name # name
             id == dd[k].id
         IN [dd |-> Del(dd, id),
             repo |-> [repo EXCEPT ![id].is_registered = FALSE],
             notes |-> notify("device_removed", id, n, raising, 1),
             changed |-> {[kind |-> "device_removed", id |-> id]}]
    ELSE Unchanged(dd, repo)

\* DiscoveryService._on_device_updated: removed, then added.
on_device_updated(dd, repo, n, name, info, raising) ==
    LET rm == on_device_removed(dd, repo, n, name, raising)
        ad == on_device_added(rm.dd, rm.repo, n, name, info, raising)
    IN [dd |-> ad.dd, repo |-> ad.repo, notes |-> rm.notes \o ad.notes,
        changed |-> rm.changed \cup ad.changed]

IsOffline(dev) == dev.age > OfflineThresholdTicks /\ dev.is_registered

\* A scan that reports an unseen device without clearing is_registered.
RECURSIVE check_offline_keep_registered(_, _, _, _, _)
check_offline_keep_registered(dd, repo, n, raising, i) ==
    IF i > Len(dd) THEN Unchanged(dd, repo)
    ELSE LET rest == check_offline_keep_registered(dd, repo, n, raising, i + 1)
         IN IF IsOffline(dd[i])
            THEN [rest EXCEPT
                    !.notes = notify("device_offline", dd[i].id, n, raising, 1) \o @,
                    !.changed = @ \cup {[kind |-> "device_offline", id |-> dd[i].id]}]
            ELSE rest

\* One scan of check_offline_loop from the i-th discovered device on: a
\* registered device not seen for more than OFFLINE_THRESHOLD is marked
\* unregistered, written to the table and reported.
RECURSIVE check_offline(_, _, _, _, _)
check_offline(dd, repo, n, raising, i) ==
    IF i > Len(dd) THEN Unchanged(dd, repo)
    ELSE IF IsOffline(dd[i])
         THEN LET dd1 == [dd EXCEPT ![i].is_registered = FALSE]
                  repo1 == [repo EXCEPT ![dd[i].id].is_registered = FALSE]
                  rest == check_offline(dd1, repo1, n, raising, i + 1)
              IN [rest EXCEPT
                    !.notes = notify("device_offline", dd[i].id, n, raising, 1) \o @,
                    !.changed = @ \cup {[kind |-> "device_offline", id |-> dd[i].id]}]
         ELSE check_offline(dd, repo, n, raising, i + 1)

\* Tables the service can be constructed on: empty, or with a row stored
\* earlier for the peer b1 under the name n1 and with b1's hardware address.
StoredTables ==
    {[p \in S |-> [name |-> "n1", mac_address |-> p, is_registered |-> FALSE]] :
        S \in {{}, {"b1"}}}

NoReports == [p \in Peers |-> 0]

\* DiscoveryService.__init__, on one of the stored tables.
DiscInit ==
    /\ disc_running = FALSE
    /\ browsing = FALSE
    /\ listeners = 0
    /\ discovered_devices = <<>>
    /\ device_repo \in StoredTables
    /\ sweepers = [t \in 1..MaxStarts |-> "none"]
    /\ advertised = [p \in Peers |-> "none"]
    /\ starts = 0
    /\ offline_since_seen = NoReports
    /\ disc_last = [op |-> "none", id |-> "none", notes |-> <<>>,
                    changed |-> {}, sweeper |-> 0, raising |-> {}]

\* disc_last is the handler call the last step made: NoCall after a step
\* that calls no handler.
NoCall == [op |-> "none", id |-> "none", notes |-> <<>>, changed |-> {},
           sweeper |-> 0, raising |-> {}]

DiscStep(op, id, res, t, raising) ==
    [op |-> op, id |-> id, notes |-> res.notes, changed |-> res.changed,
     sweeper |-> t, raising |-> raising]

\* Listeners that raise in a step: none, or the first one.
RaisingSets == {{}, {1}}

CountNotes(notes, l, kind, id) ==
    Cardinality({i \in 1..Len(notes) : notes[i] = Note(l, kind, id)})

\* The most device_offline reports of peer p that one listener got in notes.
MostReports(notes, p) ==
    LET counts == {CountNotes(notes, l, "device_offline", p) : l \in 1..MaxListeners}
    IN CHOOSE c \in counts : \A d \in counts : d <= c

\* offline_since_seen: for each peer, the most device_offline reports one
\* listener got since the peer's last recorded sighting, capped at 2.
Reports(res) ==
    [p \in Peers |->
        IF [kind |-> "device_added", id |-> p] \in res.changed THEN 0
        ELSE LET c == offline_since_seen[p] + MostReports(res.notes, p)
             IN IF c > 2 THEN 2 ELSE c]

Apply(res) ==
    /\ discovered_devices' = res.dd
    /\ device_repo' = res.repo
    /\ offline_since_seen' = Reports(res)

\* add_listener.
DiscAddListener ==
    /\ listeners < MaxListeners
    /\ listeners' = listeners + 1
    /\ disc_last' = NoCall
    /\ UNCHANGED <<disc_running, browsing, discovered_devices, device_repo,
                   sweepers, advertised, starts, offline_since_seen>>
    /\ UNCHANGED <<relayVars, sysVars, timeVars, recvVars, extVars>>

\* start() of a stopped service: running is set, the service is registered
\* and browsed, and a new check_offline_loop thread is started.
DiscStart ==
    /\ ~disc_running
    /\ starts < MaxStarts
    /\ disc_running' = TRUE
    /\ browsing' = TRUE
    /\ starts' = starts + 1
    /\ sweepers' = [sweepers EXCEPT ![starts + 1] = "loop"]
    /\ disc_last' = DiscStep("start", "none",
                             Unchanged(discovered_devices, device_repo), 0, {})
    /\ UNCHANGED <<listeners, discovered_devices, device_repo, advertised,
                   offline_since_seen>>
    /\ UNCHANGED <<relayVars, sysVars, timeVars, recvVars, extVars>>

\* stop(): running is cleared, the browser cancelled, zeroconf closed, and the
\* last thread joined for 5 s. A thread about to test "while self.running"
\* ends within the join; one inside its 10 s sleep ends or is still asleep
\* when the join times out.
DiscStop(asleep) ==
    /\ asleep \subseteq {t \in 1..MaxStarts : sweepers[t] = "sleep"}
    /\ disc_running' = FALSE
    /\ browsing' = FALSE
    /\ sweepers' = [t \in 1..MaxStarts |->
                       IF sweepers[t] = "none" THEN "none"
                       ELSE IF t \in asleep THEN "sleep" ELSE "done"]
    /\ disc_last' = DiscStep("stop", "none",
                             Unchanged(discovered_devices, device_repo), 0, {})
    /\ UNCHANGED <<listeners, discovered_devices, device_repo, advertised,
                   starts, offline_since_seen>>
    /\ UNCHANGED <<relayVars, sysVars, timeVars, recvVars, extVars>>

\* Peer p announces its service under name; zeroconf calls _on_device_added.
DiscAdded(p, name, raising) ==
    /\ browsing
    /\ \A q \in Peers \ {p} : advertised[q] # name
    /\ raising \subseteq 1..listeners
    /\ LET res == on_device_added(discovered_devices, device_repo, listeners,
                                  name, [present |-> TRUE, device_id |-> p], raising)
       IN /\ Apply(res)
          /\ disc_last' = DiscStep("added", p, res, 0, raising)
    /\ advertised' = [advertised EXCEPT ![p] = name]
    /\ UNCHANGED <<disc_running, browsing, listeners, sweepers, starts>>
    /\ UNCHANGED <<relayVars, sysVars, timeVars, recvVars, extVars>>

\* Service infos that do not identify a peer: none, the local device's own
\* advertisement, and TXT records without a well-formed device_id.
OtherInfos ==
    {[present |-> FALSE, device_id |-> ""]}
        \cup {[present |-> TRUE, device_id |-> i] : i \in {LocalId} \cup InvalidIds}

\* A service that is not a peer's appears under name.
DiscAddedOther(name, info, raising) ==
    /\ browsing
    /\ \A q \in Peers : advertised[q] # name
    /\ raising \subseteq 1..listeners
    /\ LET res == on_device_added(discovered_devices, device_repo, listeners,
                                  name, info, raising)
       IN /\ Apply(res)
          /\ disc_last' = DiscStep("added", info.device_id, res, 0, raising)
    /\ UNCHANGED <<disc_running, browsing, listeners, sweepers, advertised, starts>>
    /\ UNCHANGED <<relayVars, sysVars, timeVars, recvVars, extVars>>

\* Peer p withdraws its service; zeroconf calls _on_device_removed.
DiscRemoved(p, raising) ==
    /\ browsing
    /\ advertised[p] # "none"
    /\ raising \subseteq 1..listeners
    /\ LET res == on_device_removed(discovered_devices, device_repo, listeners,
                                    advertised[p], raising)
       IN /\ Apply(res)
          /\ disc_last' = DiscStep("removed", p, res, 0, raising)
    /\ advertised' = [advertised EXCEPT ![p] = "none"]
    /\ UNCHANGED <<disc_running, browsing, listeners, sweepers, starts>>
    /\ UNCHANGED <<relayVars, sysVars, timeVars, recvVars, extVars>>

\* Peer p's service changes its TXT record, to one that carries id;
\* zeroconf calls _on_device_updated.
DiscUpdated(p, id, raising) ==
    /\ browsing
    /\ advertised[p] # "none"
    /\ id \in {p} \cup InvalidIds
    /\ raising \subseteq 1..listeners
    /\ LET res == on_device_updated(discovered_devices, device_repo, listeners,
                                    advertised[p],
                                    [present |-> TRUE, device_id |-> id], raising)
       IN /\ Apply(res)
          /\ disc_last' = DiscStep("updated", id, res, 0, raising)
    /\ UNCHANGED <<disc_running, browsing, listeners, sweepers, advertised, starts>>
    /\ UNCHANGED <<relayVars, sysVars, timeVars, recvVars, extVars>>

\* check_offline_loop of thread t at "while self.running": one scan under the
\* lock and into the sleep, or the end of the thread.
SweepLoop(t, raising) ==
    /\ sweepers[t] = "loop"
    /\ raising \subseteq 1..listeners
    /\ IF disc_running
       THEN LET res == check_offline(discovered_devices, device_repo, listeners,
                                     raising, 1)
            IN /\ Apply(res)
               /\ disc_last' = DiscStep("sweep", "none", res, t, raising)
               /\ sweepers' = [sweepers EXCEPT ![t] = "sleep"]
       ELSE /\ sweepers' = [sweepers EXCEPT ![t] = "done"]
            /\ disc_last' = NoCall
            /\ UNCHANGED <<discovered_devices, device_repo, offline_since_seen>>
    /\ UNCHANGED <<disc_running, browsing, listeners, advertised, starts>>
    /\ UNCHANGED <<relayVars, sysVars, timeVars, recvVars, extVars>>

\* time.sleep(10) of thread t returns.
SweepWake(t) ==
    /\ sweepers[t] = "sleep"
    /\ sweepers' = [sweepers EXCEPT ![t] = "loop"]
    /\ disc_last' = NoCall
    /\ UNCHANGED <<disc_running, browsing, listeners, discovered_devices,
                   device_repo, advertised, starts, offline_since_seen>>
    /\ UNCHANGED <<relayVars, sysVars, timeVars, recvVars, extVars>>

\* The clock advances by one tick: every last_seen is one tick older.
DiscTick ==
    /\ \E i \in 1..Len(discovered_devices) :
           discovered_devices[i].age <= OfflineThresholdTicks
    /\ discovered_devices' =
           [i \in 1..Len(discovered_devices) |->
               [discovered_devices[i] EXCEPT
                   !.age = IF @ <= OfflineThresholdTicks THEN @ + 1 ELSE @]]
    /\ disc_last' = NoCall
    /\ UNCHANGED <<disc_running, browsing, listeners, device_repo, sweepers,
                   advertised, starts, offline_since_seen>>
    /\ UNCHANGED <<relayVars, sysVars, timeVars, recvVars, extVars>>

DiscNext ==
    \/ DiscAddListener
    \/ DiscStart
    \/ \E p \in Peers, name \in ServiceNames, raising \in RaisingSets :
           DiscAdded(p, name, raising)
    \/ \E name \in ServiceNames, info \in OtherInfos,
          raising \in RaisingSets : DiscAddedOther(name, info, raising)
    \/ \E p \in Peers, raising \in RaisingSets : DiscRemoved(p, raising)
    \/ \E p \in Peers, id \in Peers \cup InvalidIds,
          raising \in RaisingSets : DiscUpdated(p, id, raising)
    \/ \E t \in 1..MaxStarts, raising \in RaisingSets :
           SweepLoop(t, raising)
    \/ \E t \in 1..MaxStarts : SweepWake(t)
    \/ DiscTick

DiscServiceInit ==
    /\ RelayInit /\ config = [max_queue_size |-> 0, batch_size |-> 1, max_retries |-> 0]
    /\ SysInit /\ TimeInit /\ RecvInit /\ DiscInit /\ ExtIdle

\* A started service: observations and the sweep.
SpecDisc == DiscServiceInit /\ [][DiscNext]_vars

\* start() and stop() of a service that sights the peer b1.
LifecycleNext ==
    \/ DiscAddListener
    \/ DiscStart
    \/ \E asleep \in SUBSET (1..MaxStarts) : DiscStop(asleep)
    \/ DiscAdded("b1", "n1", {})
    \/ \E t \in 1..MaxStarts : SweepLoop(t, {})
    \/ \E t \in 1..MaxStarts : SweepWake(t)
    \/ DiscTick

SpecLifecycle == DiscServiceInit /\ [][LifecycleNext]_vars

\* ------------------------------------- ConnectionHandler, at byte level
\* "length > 1024 * 1024": the largest frame receive_message accepts, and
\* the size of the length prefix.
MaxMessageBytes == 1048576
LengthPrefixBytes == 4

\* Partial reads the transport makes within one receive_message call before
\* it delivers all that is asked for; calls logged on the handler.
MaxChunks == 2
MaxCalls == 3

\* Python values: str, int, list, tuple and dict (a sequence of key/value
\* pairs).
PyStr(s) == [t |-> "str", s |-> s, items |-> <<>>]
PyInt(s) == [t |-> "int", s |-> s, items |-> <<>>]
PyList(items) == [t |-> "list", s |-> "", items |-> items]
PyTuple(items) == [t |-> "tuple", s |-> "", items |-> items]
PyPair(k, v) == [t |-> "pair", s |-> "", items |-> <<k, v>>]
PyDict(pairs) == [t |-> "dict", s |-> "", items |-> pairs]

\* json.dumps: lists and tuples become arrays, dicts become objects whose
\* keys are strings (an int key is written as its digits).
RECURSIVE json_dumps(_)
json_dumps(v) ==
    CASE v.t = "str" -> [t |-> "string", s |-> v.s, items |-> <<>>]
      [] v.t = "int" -> [t |-> "number", s |-> v.s, items |-> <<>>]
      [] v.t \in {"list", "tuple"} ->
            [t |-> "array", s |-> "",
             items |-> [i \in 1..Len(v.items) |-> json_dumps(v.items[i])]]
      [] v.t = "dict" ->
            [t |-> "object", s |-> "",
             items |-> [i \in 1..Len(v.items) |->
                          [t |-> "member", s |-> v.items[i].items[1].s,
                           items |-> <<json_dumps(v.items[i].items[2])>>]]]

\* json.loads: arrays become lists, objects dicts with str keys.
RECURSIVE json_loads(_)
json_loads(j) ==
    CASE j.t = "string" -> PyStr(j.s)
      [] j.t = "number" -> PyInt(j.s)
      [] j.t = "array" -> PyList([i \in 1..Len(j.items) |-> json_loads(j.items[i])])
      [] j.t = "object" ->
            PyDict([i \in 1..Len(j.items) |->
                      PyPair(PyStr(j.items[i].s), json_loads(j.items[i].items[1]))])

\* A value built from str, int, list and dicts with str keys only.
RECURSIVE IsJsonNative(_)
IsJsonNative(v) ==
    CASE v.t \in {"str", "int"} -> TRUE
      [] v.t = "tuple" -> FALSE
      [] v.t = "list" -> \A i \in 1..Len(v.items) : IsJsonNative(v.items[i])
      [] v.t = "dict" -> \A i \in 1..Len(v.items) :
                             /\ v.items[i].items[1].t = "str"
                             /\ IsJsonNative(v.items[i].items[2])

\* data arguments of send_message: nested, with a tuple under an int key,
\* and two whose message serializes to 1 MiB and to one byte more.
DataNested ==
    PyDict(<<PyPair(PyStr("k"),
                    PyDict(<<PyPair(PyStr("n"), PyList(<<PyInt("1"), PyInt("2")>>))>>))>>)
DataTuple == PyDict(<<PyPair(PyInt("1"), PyTuple(<<PyInt("1"), PyInt("2")>>))>>)
DataMax == PyDict(<<PyPair(PyStr("k"), PyStr("x * (1 MiB - rest)"))>>)
DataOver == PyDict(<<PyPair(PyStr("k"), PyStr("x * (1 MiB - rest + 1)"))>>)

\* The send_message calls made, in the order of this catalogue.
SentMessages ==
    <<[msg_type |-> "HELLO", data |-> DataNested],
      [msg_type |-> "INPUT_EVENT", data |-> DataTuple],
      [msg_type |-> "INPUT_EVENT", data |-> DataMax],
      [msg_type |-> "INPUT_EVENT", data |-> DataOver]>>

\* len(json_bytes) of each catalogue message.
SentSizes == <<3, 2, MaxMessageBytes, MaxMessageBytes + 1>>

\* The JSON text send_message builds: msg_type, data and the timestamp.
MessageText(m) ==
    [msg_type |-> m.msg_type, data |-> json_dumps(m.data), timestamp |-> "now"]

CatalogueIndex(text) ==
    CHOOSE i \in 1..Len(SentMessages) : MessageText(SentMessages[i]) = text

\* json_str.encode('utf-8'): the text's bytes, as one run of its own byte
\* value.
encode(text) ==
    [v |-> 96 + CatalogueIndex(text), n |-> SentSizes[CatalogueIndex(text)]]

\* json.loads(json_bytes.decode('utf-8')): the message of a catalogue text,
\* or a decode error for any other bytes.
decode(runs) ==
    IF /\ Len(runs) = 1
       /\ \E i \in 1..Len(SentMessages) :
              runs[1] = encode(MessageText(SentMessages[i]))
    THEN LET i == CHOOSE k \in 1..Len(SentMessages) :
                      runs[1] = encode(MessageText(SentMessages[k]))
             text == MessageText(SentMessages[i])
         IN [ok |-> TRUE,
             msg |-> [msg_type |-> text.msg_type, data |-> json_loads(text.data),
                      timestamp |-> text.timestamp]]
    ELSE [ok |-> FALSE, msg |-> <<>>]

\* length.to_bytes(4, 'big') and int.from_bytes(length_bytes, 'big').
to_bytes(n) ==
    <<n \div 16777216, (n \div 65536) % 256, (n \div 256) % 256, n % 256>>

from_bytes(b) == b[1] * 16777216 + b[2] * 65536 + b[3] * 256 + b[4]

\* A length check that turns away a frame of exactly 1 MiB.
length_ok_exclusive(length) == length > 0 /\ length < MaxMessageBytes

\* "if length <= 0 or length > 1024 * 1024: return None", negated.
length_ok(length) == length > 0 /\ length <= MaxMessageBytes

\* Byte runs: n bytes of value v; f, part and k say which send_message call
\* wrote them (history).
RECURSIVE Avail(_)
Avail(s) == IF s = <<>> THEN 0 ELSE Head(s).n + Avail(Tail(s))

\* The first j bytes of s, and s without them.
RECURSIVE Take(_, _)
Take(s, j) ==
    IF j = 0 \/ s = <<>> THEN <<>>
    ELSE IF Head(s).n <= j THEN <<Head(s)>> \o Take(Tail(s), j - Head(s).n)
         ELSE <<[Head(s) EXCEPT !.n = j]>>

RECURSIVE Drop(_, _)
Drop(s, j) ==
    IF j = 0 \/ s = <<>> THEN s
    ELSE IF Head(s).n <= j THEN Drop(Tail(s), j - Head(s).n)
         ELSE <<[Head(s) EXCEPT !.n = @ - j]>> \o Tail(s)

\* The byte values of a chunk of single bytes or short runs.
RECURSIVE Expand(_)
Expand(c) ==
    IF c = <<>> THEN <<>>
    ELSE IF Head(c).n = 1 THEN <<Head(c).v>> \o Expand(Tail(c))
         ELSE <<Head(c).v>> \o Expand(<<[Head(c) EXCEPT !.n = @ - 1]>> \o Tail(c))

\* json_bytes += chunk: bytes as runs of value and count.
Plain(c) == [i \in 1..Len(c) |-> [v |-> c[i].v, n |-> c[i].n]]

RECURSIVE Join(_, _)
Join(acc, c) ==
    IF c = <<>> THEN acc
    ELSE IF acc # <<>> /\ acc[Len(acc)].v = Head(c).v
         THEN Join([acc EXCEPT ![Len(acc)].n = @ + Head(c).n], Tail(c))
         ELSE Join(Append(acc, Head(c)), Tail(c))

\* A sender that writes at the front of what is in flight.
write_front(s, runs) == runs \o s

\* socket.sendall: the bytes follow those already in flight.
write(s, runs) == s \o runs

\* The four length bytes and the payload of the f-th send_message call.
LengthRuns(m, f) ==
    LET b == to_bytes(encode(MessageText(m)).n)
    IN [k \in 1..LengthPrefixBytes |->
           [v |-> b[k], n |-> 1, f |-> f, part |-> "len", k |-> k]]

PayloadRun(m, f) ==
    LET e == encode(MessageText(m))
    IN [v |-> e.v, n |-> e.n, f |-> f, part |-> "payload", k |-> 1]

SendThreads == {1, 2}

RxIdle == [pc |-> "idle", length_bytes |-> <<>>, length |-> 0, json_bytes |-> <<>>,
           got |-> 0, consumed |-> 0, chunks |-> 0, first |-> <<>>]

TxIdle == [pc |-> "idle", f |-> 0]

\* A connected pair: the local handler and its peer after connect/accept.
ConnectedInit ==
    /\ stream = <<>>
    /\ peer_closed = FALSE
    /\ sock = "connected"
    /\ rx = RxIdle
    /\ handler_log = <<>>
    /\ tx = [t \in SendThreads |-> TxIdle]
    /\ tx_log = <<>>
    /\ CallIdle
    /\ LockIdle
    /\ AuditIdle

ConnFrame ==
    UNCHANGED <<relayVars, sysVars, timeVars, recvVars, discVars, callVars,
                lockVars, auditVars>>

\* Thread t of the peer enters send_message(m) and returns from
\* sendall(length_bytes).
SendLength(t, m) ==
    /\ ~peer_closed
    /\ tx[t].pc = "idle"
    /\ Len(tx_log) < MaxFrames
    /\ tx_log' = Append(tx_log, m)
    /\ stream' = write(stream, LengthRuns(m, Len(tx_log) + 1))
    /\ tx' = [tx EXCEPT ![t] = [pc |-> "payload", f |-> Len(tx_log) + 1]]
    /\ UNCHANGED <<peer_closed, sock, rx, handler_log>>
    /\ ConnFrame

\* Thread t returns from sendall(json_bytes) and from send_message.
SendPayload(t) ==
    /\ ~peer_closed
    /\ tx[t].pc = "payload"
    /\ stream' = write(stream, <<PayloadRun(tx_log[tx[t].f], tx[t].f)>>)
    /\ tx' = [tx EXCEPT ![t] = TxIdle]
    /\ UNCHANGED <<peer_closed, sock, rx, handler_log, tx_log>>
    /\ ConnFrame

\* The peer's end closes, between frames or inside one; with partial, one
\* byte of the payload being written got out.
PeerClose(partial) ==
    /\ ~peer_closed
    /\ peer_closed' = TRUE
    /\ IF partial
       THEN /\ \E t \in SendThreads : tx[t].pc = "payload"
            /\ LET t == CHOOSE u \in SendThreads : tx[u].pc = "payload"
               IN stream' = write(stream,
                      <<[PayloadRun(tx_log[tx[t].f], tx[t].f) EXCEPT !.n = 1]>>)
       ELSE UNCHANGED stream
    /\ UNCHANGED <<sock, rx, handler_log, tx, tx_log>>
    /\ ConnFrame

Logged(entry) == handler_log' = Append(handler_log, entry)

ReceiveEntry(ret, why, msg, r) ==
    [op |-> "receive", ret |-> ret, why |-> why, msg |-> msg,
     length |-> r.length, consumed |-> r.consumed, chunks |-> r.chunks,
     first |-> r.first, before |-> sock, after |-> sock, touched |-> sock # "none"]

\* receive_message is called: without a socket it returns None at once; on
\* a listening socket recv raises OSError and it returns None.
ReceiveCall ==
    /\ rx.pc = "idle"
    /\ Len(handler_log) < MaxCalls
    /\ IF sock = "none"
       THEN Logged(ReceiveEntry("none", "no_socket", <<>>, RxIdle)) /\ UNCHANGED rx
       ELSE IF sock = "listening"
            THEN Logged(ReceiveEntry("none", "oserror", <<>>, RxIdle)) /\ UNCHANGED rx
            ELSE rx' = [RxIdle EXCEPT !.pc = "len"] /\ UNCHANGED handler_log
    /\ UNCHANGED <<stream, peer_closed, sock, tx, tx_log>>
    /\ ConnFrame

\* A want that asks for the whole length or payload again after a partial
\* read.
want_whole(r) ==
    IF r.pc = "len" THEN LengthPrefixBytes ELSE r.length

\* The argument of socket.recv: 4 - len(length_bytes), length - len(json_bytes).
want(r) ==
    IF r.pc = "len" THEN LengthPrefixBytes - Len(r.length_bytes)
    ELSE r.length - r.got

\* receive_message after a chunk of the length prefix: the length is parsed
\* and checked when all four bytes are there.
AfterLength(r) ==
    IF Len(r.length_bytes) < LengthPrefixBytes THEN [r |-> r, done |-> FALSE]
    ELSE LET length == from_bytes(r.length_bytes)
             r1 == [r EXCEPT !.length = length]
         IN IF length_ok(length)
            THEN [r |-> [r1 EXCEPT !.pc = "payload"], done |-> FALSE]
            ELSE [r |-> r1, done |-> TRUE, ret |-> "none", why |-> "bad_length",
                  msg |-> <<>>]

\* receive_message after a chunk of the payload: the bytes are decoded when
\* all of them are there.
AfterPayload(r) ==
    IF r.got < r.length THEN [r |-> r, done |-> FALSE]
    ELSE LET d == decode(r.json_bytes)
         IN IF d.ok
            THEN [r |-> r, done |-> TRUE, ret |-> "message", why |-> "ok",
                  msg |-> d.msg]
            ELSE [r |-> r, done |-> TRUE, ret |-> "none", why |-> "decode_error",
                  msg |-> <<>>]

\* socket.recv returns j bytes: all that is asked for and there, or, for a
\* bounded number of times, fewer.
ReceiveChunk(whole, j) ==
    /\ rx.pc \in {"len", "payload"}
    /\ Avail(stream) > 0
    /\ LET most == IF want(rx) < Avail(stream) THEN want(rx) ELSE Avail(stream)
           jj == IF whole THEN most ELSE j
           chunk == Take(stream, jj)
           r0 == [rx EXCEPT !.consumed = @ + jj,
                            !.chunks = @ + 1,
                            !.first = IF rx.consumed = 0
                                      THEN [f |-> stream[1].f, part |-> stream[1].part,
                                            k |-> stream[1].k]
                                      ELSE @]
           r1 == IF rx.pc = "len"
                 THEN AfterLength([r0 EXCEPT !.length_bytes = @ \o Expand(chunk)])
                 ELSE AfterPayload([r0 EXCEPT !.json_bytes = Join(@, Plain(chunk)),
                                              !.got = @ + jj])
       IN /\ whole \/ (j < most /\ rx.chunks < MaxChunks)
          /\ stream' = Drop(stream, jj)
          /\ IF r1.done
             THEN /\ Logged(ReceiveEntry(r1.ret, r1.why, r1.msg, r1.r))
                  /\ rx' = RxIdle
             ELSE /\ rx' = r1.r
                  /\ UNCHANGED handler_log
    /\ UNCHANGED <<peer_closed, sock, tx, tx_log>>
    /\ ConnFrame

\* socket.recv returns b"": the peer has closed and nothing is left.
ReceiveEOF ==
    /\ rx.pc \in {"len", "payload"}
    /\ Avail(stream) = 0
    /\ peer_closed
    /\ Logged(ReceiveEntry("none", "closed", <<>>, rx))
    /\ rx' = RxIdle
    /\ UNCHANGED <<stream, peer_closed, sock, tx, tx_log>>
    /\ ConnFrame

\* send_message on the local handler: False without a socket, False when
\* sendall raises on a listening socket, True on a connected one.
LocalSend ==
    /\ rx.pc = "idle"
    /\ Len(handler_log) < MaxCalls
    /\ Logged([op |-> "send", ret |-> IF sock = "connected" THEN "true" ELSE "false",
               why |-> "none", msg |-> <<>>, length |-> 0, consumed |-> 0,
               chunks |-> 0, first |-> <<>>, before |-> sock, after |-> sock,
               touched |-> sock # "none"])
    /\ UNCHANGED <<stream, peer_closed, sock, rx, tx, tx_log>>
    /\ ConnFrame

\* Frames a connected handler receives from one sending thread of its peer.
FrameNext ==
    \/ \E i \in 1..Len(SentMessages) : SendLength(1, SentMessages[i])
    \/ SendPayload(1)
    \/ \E partial \in BOOLEAN : PeerClose(partial)
    \/ ReceiveCall
    \/ \E whole \in BOOLEAN, j \in 1..2 : ReceiveChunk(whole, j)
    \/ ReceiveEOF
    \/ LocalSend

ConnInit ==
    /\ RelayInit /\ config = [max_queue_size |-> 0, batch_size |-> 1, max_retries |-> 0]
    /\ SysInit /\ TimeInit /\ RecvInit /\ DiscIdle /\ ConnectedInit

SpecFrame == ConnInit /\ [][FrameNext]_vars

\* Two threads of the peer send on the same handler.
SendNext ==
    \/ \E t \in SendThreads, i \in 1..Len(SentMessages) : SendLength(t, SentMessages[i])
    \/ \E t \in SendThreads : SendPayload(t)

SpecSend == ConnInit /\ [][SendNext]_vars

\* close() whose shutdown and close errors reach the outer except.
close_without_inner_try(s, shutdown_raises, close_raises) ==
    IF s # "none" /\ (shutdown_raises \/ close_raises) THEN s ELSE "none"

\* ConnectionHandler.close: self.socket after the call. An OSError or
\* AttributeError of shutdown and an OSError of close are passed over, and
\* self.socket is set to None.
close(s, shutdown_raises, close_raises) == "none"

HandlerEntry(op, ret, before, after) ==
    [op |-> op, ret |-> ret, why |-> "none", msg |-> <<>>, length |-> 0,
     consumed |-> 0, chunks |-> 0, first |-> <<>>, before |-> before,
     after |-> after, touched |-> before # "none"]

\* A handler as constructed: no socket.
HandlerInit ==
    /\ stream = <<>>
    /\ peer_closed = FALSE
    /\ sock = "none"
    /\ rx = RxIdle
    /\ handler_log = <<>>
    /\ tx = [t \in SendThreads |-> TxIdle]
    /\ tx_log = <<>>
    /\ CallIdle
    /\ LockIdle
    /\ AuditIdle

\* connect() succeeds: self.socket is the TLS socket to a peer.
HandlerConnect ==
    /\ sock = "none"
    /\ sock' = "connected"
    /\ peer_closed' = FALSE
    /\ UNCHANGED <<stream, rx, handler_log, tx, tx_log>>
    /\ ConnFrame

\* listen() succeeds: self.socket is the listening socket.
HandlerListen ==
    /\ sock = "none"
    /\ sock' = "listening"
    /\ UNCHANGED <<stream, peer_closed, rx, handler_log, tx, tx_log>>
    /\ ConnFrame

\* close() is called, with sockets whose shutdown or close may raise.
HandlerClose(shutdown_raises, close_raises) ==
    /\ rx.pc = "idle"
    /\ Len(handler_log) < MaxCalls
    /\ sock' = close(sock, shutdown_raises, close_raises)
    /\ Logged(HandlerEntry("close", "returned", sock, sock'))
    /\ UNCHANGED <<stream, peer_closed, rx, tx, tx_log>>
    /\ ConnFrame

CloseNext ==
    \/ HandlerConnect
    \/ HandlerListen
    \/ \E sr \in BOOLEAN, cr \in BOOLEAN : HandlerClose(sr, cr)
    \/ LocalSend
    \/ ReceiveCall
    \/ PeerClose(FALSE)
    \/ ReceiveEOF

CloseInit ==
    /\ RelayInit /\ config = [max_queue_size |-> 0, batch_size |-> 1, max_retries |-> 0]
    /\ SysInit /\ TimeInit /\ RecvInit /\ DiscIdle /\ HandlerInit

SpecClose == CloseInit /\ [][CloseNext]_vars

\* ======================================================================
\* Part VII: Device construction
\* ======================================================================
\* Strings whose characters matter are sequences of one-character strings.
Digits == {"0", "1", "2", "3", "4", "5", "6", "7", "8", "9"}

HexDigits == Digits \cup {"a", "b", "c", "d", "e", "f",
                          "A", "B", "C", "D", "E", "F"}

Letters ==
    {"a", "b", "c", "d", "e", "f", "g", "h", "i", "j", "k", "l", "m",
     "n", "o", "p", "q", "r", "s", "t", "u", "v", "w", "x", "y", "z",
     "A", "B", "C", "D", "E", "F", "G", "H", "I", "J", "K", "L", "M",
     "N", "O", "P", "Q", "R", "S", "T", "U", "V", "W", "X", "Y", "Z"}

\* [a-zA-Z0-9\s\-']
NameChars == Letters \cup Digits \cup {" ", "\t", "\n", "-", "'"}

MaxNameLength == 50
MaxPort == 65535

\* What a pattern ending in $ is matched against: $ also matches just
\* before a newline that ends the string.
BeforeDollar(s) ==
    IF Len(s) > 0 /\ s[Len(s)] = "\n" THEN {s, SubSeq(s, 1, Len(s) - 1)}
    ELSE {s}

\* ([0-9A-Fa-f]{2}[:-]){5}([0-9A-Fa-f]{2})
HexPairs(s) ==
    /\ Len(s) = 17
    /\ \A i \in 1..17 :
          IF i % 3 = 0 THEN s[i] \in {":", "-"} ELSE s[i] \in HexDigits

validate_mac_address(mac) == \E s \in BeforeDollar(mac) : HexPairs(s)

validate_device_name(name) ==
    /\ name # <<>>
    /\ Len(name) <= MaxNameLength
    /\ \A i \in 1..Len(name) : name[i] \in NameChars

validate_port(port) == 1 <= port /\ port <= MaxPort

\* validate_ip_address for a dotted quad, given as its four numbers.
validate_ip_address(ip) == Len(ip) = 4 /\ \A i \in 1..4 : ip[i] \in 0..255

validate_os_type(os) == os \in {"Windows", "Darwin"}

\* Device.__post_init__: the device is returned, or ValueError is raised.
Device(args) ==
    IF /\ validate_uuid(args.id)
       /\ args.mac_address # <<>> => validate_mac_address(args.mac_address)
       /\ validate_device_name(args.name)
       /\ validate_port(args.port)
       /\ args.ip_address # <<>> => validate_ip_address(args.ip_address)
       /\ validate_os_type(args.os)
    THEN [status |-> "returned", value |-> args]
    ELSE [status |-> "raised", value |-> <<>>]

\* n pairs of the character d, separated by sep.
JoinPairs(d, sep, n) == [i \in 1..(3 * n - 1) |-> IF i % 3 = 0 THEN sep ELSE d]

Repeat(c, n) == [i \in 1..n |-> c]

MacInputs ==
    {<<>>, JoinPairs("A", ":", 6), JoinPairs("a", "-", 6),
     JoinPairs("A", ":", 5), JoinPairs("G", ":", 6), Repeat("A", 12),
     JoinPairs("A", ":", 6) \o <<"\n">>}

NameInputs ==
    {<<>>, Repeat("a", 1), Repeat("a", MaxNameLength),
     Repeat("a", MaxNameLength + 1), <<"a", "_", "b">>}

PortInputs == {0, 1, 80, 1023, 1024, 19999, MaxPort, MaxPort + 1}

IpInputs == {<<>>, <<192, 168, 1, 100>>, <<256, 1, 1, 1>>}

DeviceInputs ==
    [id : {LocalId, "not-a-uuid"}, mac_address : MacInputs, name : NameInputs,
     os : {"Windows", "Darwin"}, ip_address : IpInputs, port : PortInputs]

DeviceInit ==
    /\ RelayInit /\ SysInit /\ TimeInit /\ RecvInit /\ DiscIdle
    /\ config = [max_queue_size |-> 0, batch_size |-> 1, max_retries |-> 0]
    /\ ConnIdle /\ LockIdle /\ AuditIdle
    /\ call_args \in DeviceInputs
    /\ call_result = [status |-> "pending", value |-> <<>>]

DeviceConstruct ==
    /\ call_result.status = "pending"
    /\ call_result' = Device(call_args)
    /\ UNCHANGED <<relayVars, sysVars, timeVars, recvVars, discVars, connVars,
                   lockVars, auditVars, call_args>>

SpecDevice == DeviceInit /\ [][DeviceConstruct]_vars

\* ----------------------------------------------- InputEvent round trip
EventKinds ==
    {"KEY_PRESS", "KEY_RELEASE", "MOUSE_MOVE", "MOUSE_CLICK", "MOUSE_RELEASE",
     "MOUSE_SCROLL"}

\* _validate_payload asking MOUSE_MOVE for x only.
RequiredKeys_x_only(kind) ==
    CASE kind \in {"KEY_PRESS", "KEY_RELEASE"} -> {"keycode"}
      [] kind = "MOUSE_MOVE" -> {"x"}
      [] kind \in {"MOUSE_CLICK", "MOUSE_RELEASE"} -> {"button"}
      [] kind = "MOUSE_SCROLL" -> {"scroll_delta"}
      [] OTHER -> {}

\* InputEvent._validate_payload: the keys the kind requires are there.
RequiredKeys(kind) ==
    CASE kind \in {"KEY_PRESS", "KEY_RELEASE"} -> {"keycode"}
      [] kind = "MOUSE_MOVE" -> {"x", "y"}
      [] kind \in {"MOUSE_CLICK", "MOUSE_RELEASE"} -> {"button"}
      [] kind = "MOUSE_SCROLL" -> {"scroll_delta"}
      [] OTHER -> {}

\* InputEvent.__post_init__: the event is returned or ValueError is raised.
InputEvent(fields) ==
    IF /\ validate_uuid(fields.source_device_id)
       /\ validate_uuid(fields.target_device_id)
       /\ RequiredKeys(fields.event_type.member) \subseteq DOMAIN fields.payload
    THEN [status |-> "event", value |-> fields]
    ELSE [status |-> "raised", value |-> <<>>]

\* Payloads as the input handlers build them, and one without its keys.
PayloadInputs(kind) ==
    CASE kind \in {"KEY_PRESS", "KEY_RELEASE"} ->
             {[keycode |-> "A", modifiers |-> <<"ctrl", "shift">>],
              [keycode |-> "A"], [modifiers |-> <<"ctrl">>]}
      [] kind = "MOUSE_MOVE" ->
             {[x |-> 1024, y |-> 768], [x |-> 0], [y |-> 0]}
      [] kind \in {"MOUSE_CLICK", "MOUSE_RELEASE"} ->
             {[button |-> "left"], [button |-> "right", clicks |-> 2],
              [clicks |-> 2]}
      [] kind = "MOUSE_SCROLL" ->
             {[scroll_delta |-> 5], [scroll_delta |-> -5], [delta |-> 5]}

\* Timestamps: UTC with and without microseconds, naive, and aware values
\* east and west of UTC.
TimestampInputs ==
    {UtcNow(1), DateTime(1, 500000, TRUE, 0), DateTime(1, 1, FALSE, 0),
     DateTime(2, 0, FALSE, 0), DateTime(1, 999999, TRUE, 330),
     DateTime(1, 0, TRUE, -480)}

EventInputs ==
    UNION {[id : {"e1"}, event_type : {[member |-> k]},
            source_device_id : {LocalId, ""}, target_device_id : {"b1"},
            payload : PayloadInputs(k), timestamp : TimestampInputs,
            is_encrypted : BOOLEAN] : k \in EventKinds}

EventInit ==
    /\ RelayInit /\ SysInit /\ TimeInit /\ RecvInit /\ DiscIdle
    /\ config = [max_queue_size |-> 0, batch_size |-> 1, max_retries |-> 0]
    /\ ConnIdle /\ LockIdle /\ AuditIdle
    /\ call_args \in EventInputs
    /\ call_result = [status |-> "pending", value |-> <<>>]

EventFrame ==
    UNCHANGED <<relayVars, sysVars, timeVars, recvVars, discVars, connVars,
                lockVars, auditVars, call_args>>

\* e = InputEvent(**args)
EventConstruct ==
    /\ call_result.status = "pending"
    /\ call_result' = InputEvent(call_args)
    /\ EventFrame

\* d = e.to_dict()
EventToDict ==
    /\ call_result.status = "event"
    /\ call_result' = [status |-> "dict", value |-> to_dict(call_result.value)]
    /\ EventFrame

\* InputEvent.from_dict(d)
EventFromDict ==
    /\ call_result.status = "dict"
    /\ LET r == InputEvent(from_dict(call_result.value))
       IN call_result' = [r EXCEPT !.status =
                             IF @ = "event" THEN "rebuilt" ELSE "rebuild_raised"]
    /\ EventFrame

\* A dict with the drawn fields arrives from a peer: the peer wrote it
\* without constructing an InputEvent.
EventDictArrives ==
    /\ call_result.status = "pending"
    /\ call_result' = [status |-> "wire_dict", value |-> to_dict(call_args)]
    /\ EventFrame

\* InputEvent.from_dict(d) on the dict of a peer.
EventParse ==
    /\ call_result.status = "wire_dict"
    /\ LET r == InputEvent(from_dict(call_result.value))
       IN call_result' = [r EXCEPT !.status =
                             IF @ = "event" THEN "parsed" ELSE "parse_raised"]
    /\ EventFrame

EventNext ==
    \/ EventConstruct
    \/ EventToDict
    \/ EventFromDict
    \/ EventDictArrives
    \/ EventParse

SpecEvent == EventInit /\ [][EventNext]_vars

\* ---------------------------------------------------------- specification
WorkerStep ==
    \/ WorkerLoop
    \/ WorkerGet
    \/ WorkerTimeout
    \/ WorkerAddToBatch
    \/ WorkerSizeCheck

FlushStep(t) ==
    \/ FlushCheck(t)
    \/ FlushCopy(t)
    \/ FlushNext(t)
    \/ \E o \in SendOutcomes : ForwardAttempt(t, o)
    \/ ForwardExhausted(t)
    \/ FlushCountForwarded(t)
    \/ FlushCountFailed(t)

Init == RelayInit /\ SysInit /\ TimeInit /\ RecvInit /\ DiscIdle /\ ExtIdle

Next ==
    \/ QueueEvent
    \/ WorkerStep
    \/ \E t \in Threads : FlushStep(t)
    \/ StopCall
    \/ StopJoin

Spec == Init /\ [][Next]_vars

\* -------------------------------------------- Part I, run without stop()
\* A relay that is never stopped and whose sends succeed within the retry
\* budget: the last attempt the budget allows does not raise.
SendWithinBudget(t, outcome) ==
    /\ outcome = "raise" => attempt[t] + 1 < config.max_retries
    /\ ForwardAttempt(t, outcome)

RunWorker ==
    \/ WorkerStep
    \/ FlushCheck("worker")
    \/ FlushCopy("worker")
    \/ FlushNext("worker")
    \/ \E o \in SendOutcomes : SendWithinBudget("worker", o)
    \/ FlushCountForwarded("worker")

RunInit == Init /\ config.max_retries >= 1

RunNext == QueueEvent \/ RunWorker

\* The worker is a dedicated thread: it is scheduled as long as it can step.
SpecRun == RunInit /\ [][RunNext]_vars /\ WF_vars(RunWorker)

\* ---------------------------- Part VIII: RelayManager.relay_lock, one relay
\* One relay is in RelayManager.relays and running. The thread that calls
\* remove_relay or shutdown is the caller of that relay's stop().
LockConfig ==
    [max_queue_size |-> MaxQueueSize, batch_size |-> MaxBatchSize,
     max_retries |-> MaxRetries]

LockInit == Init /\ config = LockConfig

\* The RelayManager calls that stop the relay.
ManagerStops == {"remove_relay", "shutdown"}

\* The relay is still in RelayManager.relays: no remove_relay or shutdown
\* has been entered.
InRelays == pc["stopper"] = "idle" /\ ~relay_lock.held

\* add_relay for a device that has a relay: with self.relay_lock, return
\* the existing relay.
LockAddRelay ==
    /\ InRelays
    /\ relay_lock.op # "add_relay"
    /\ relay_lock' = [held |-> FALSE, op |-> "add_relay"]
    /\ UNCHANGED <<relayVars, sysVars, timeVars, recvVars, discVars, connVars,
                   callVars, cb_raised, auditVars>>

\* broadcast_event: with self.relay_lock, relay.queue_event(event) for the
\* relays in the map; put_nowait does not block.
LockBroadcast == InRelays /\ QueueEvent

\* remove_relay / shutdown: with self.relay_lock, up to the relay.stop() call.
LockAcquire(op) ==
    /\ InRelays
    /\ relay_lock' = [held |-> TRUE, op |-> op]
    /\ UNCHANGED <<relayVars, sysVars, timeVars, recvVars, discVars, connVars,
                   callVars, cb_raised, auditVars>>

\* relay.stop() on the manager's thread, inside the with block.
LockedStop ==
    /\ relay_lock.held
    /\ StopCall \/ FlushStep("stopper") \/ StopJoin

\* del self.relays[device_id] / self.relays.clear(); the with block ends.
LockRelease ==
    /\ relay_lock.held
    /\ pc["stopper"] = "returned"
    /\ relay_lock' = [relay_lock EXCEPT !.held = FALSE]
    /\ UNCHANGED <<relayVars, sysVars, timeVars, recvVars, discVars, connVars,
                   callVars, cb_raised, auditVars>>

LockNext ==
    \/ LockAddRelay
    \/ LockBroadcast
    \/ \E op \in ManagerStops : LockAcquire(op)
    \/ LockedStop
    \/ LockRelease
    \/ WorkerStep
    \/ FlushStep("worker")

SpecLock == LockInit /\ [][LockNext]_vars

\* Thread t is in a call that blocks on the network or on another thread:
\* connection.send_message and the retry delay after it, or
\* relay_thread.join.
Blocking(t) ==
    \/ pc[t] = "forward" /\ attempt[t] < config.max_retries
    \/ pc[t] = "join"

\* ------------------------------------- relay callbacks that raise
\* self.on_event_forwarded(event) / self.on_event_failed(event, ...) raises:
\* the counter was incremented before the call; the exception leaves
\* _flush_batch with the rest of events_to_send. In the worker it is caught by
\* _relay_loop's except, in stop() by stop's except, which returns False
\* before relay_thread.join.
FlushCallbackRaises(t) ==
    /\ pc[t] \in {"count_ok", "count_fail"}
    /\ IF pc[t] = "count_ok"
       THEN /\ metrics' = [metrics EXCEPT !.events_forwarded = @ + 1]
            /\ cb_forwarded' = Append(cb_forwarded, Head(events_to_send[t]))
            /\ UNCHANGED cb_failed
       ELSE /\ metrics' = [metrics EXCEPT !.events_failed = @ + 1]
            /\ cb_failed' = Append(cb_failed, Head(events_to_send[t]))
            /\ UNCHANGED cb_forwarded
    /\ events_to_send' = [events_to_send EXCEPT ![t] = <<>>]
    /\ pc' = [pc EXCEPT ![t] = IF t = "worker" THEN "loop" ELSE "returned"]
    /\ cb_raised' =
           [lost |-> cb_raised.lost \cup Range(Tail(events_to_send[t])),
            join_skipped |-> cb_raised.join_skipped \/ t = "stopper"]
    /\ UNCHANGED <<config, is_running, event_queue, batch_buffer, w_event,
                   attempt, produced, results, sent>>
    /\ UNCHANGED <<sysVars, timeVars, recvVars, discVars, connVars, callVars,
                   relay_lock, auditVars>>

CallbackNext ==
    \/ Next
    \/ \E t \in Threads : FlushCallbackRaises(t)

SpecCallback == LockInit /\ [][CallbackNext]_vars

\* ------------------------------- send_message reporting failure by value
\* self.connection.send_message(...) returns False (no socket, or an error
\* it caught): _forward_event does not read the value and returns True.
ForwardReturnsFalse(t) ==
    /\ pc[t] = "forward"
    /\ attempt[t] < config.max_retries
    /\ sent' = Append(sent, Head(events_to_send[t]))
    /\ send_false' = send_false \cup {Head(events_to_send[t])}
    /\ pc' = [pc EXCEPT ![t] = "count_ok"]
    /\ UNCHANGED <<config, is_running, event_queue, batch_buffer, metrics,
                   w_event, events_to_send, attempt, produced, results,
                   cb_forwarded, cb_failed>>
    /\ UNCHANGED <<sysVars, timeVars, recvVars, discVars, connVars, callVars,
                   lockVars, lifecycle, loaded, disc_lock>>

ReturnNext ==
    \/ Next
    \/ \E t \in Threads : ForwardReturnsFalse(t)

SpecReturn == LockInit /\ [][ReturnNext]_vars

\* ------------------------------------ counters, one bytecode at a time
\* "self.metrics.<field> += 1" reads the field, adds one and writes the
\* field; no lock is held, and another thread may run between the read and
\* the write.
Producers == {"p1", "p2"}

CounterConfig == [max_queue_size |-> 1, batch_size |-> 1, max_retries |-> 1]

CounterInit == Init /\ config = CounterConfig

Increment(field, e) == [field |-> field, phase |-> "load", value |-> 0, event |-> e]

CounterFrame ==
    UNCHANGED <<sysVars, timeVars, recvVars, discVars, connVars, callVars,
                lockVars, lifecycle, send_false, disc_lock>>

\* queue_event on producer thread p, up to the += of its branch.
RacyQueueEvent(p) ==
    /\ loaded[p] = NoIncrement
    /\ produced < MaxEvents
    /\ LET e == produced + 1
           full == QueueFull(event_queue, config.max_queue_size)
       IN /\ produced' = e
          /\ results' = Append(results, [event |-> e, running |-> is_running,
                                         ret |-> is_running /\ ~full])
          /\ event_queue' = IF is_running /\ ~full THEN Append(event_queue, e)
                            ELSE event_queue
          /\ loaded' = [loaded EXCEPT ![p] =
                 IF ~is_running THEN NoIncrement
                 ELSE IF full THEN Increment("events_failed", e)
                 ELSE Increment("events_received", e)]
    /\ UNCHANGED <<config, is_running, batch_buffer, metrics, pc, w_event,
                   events_to_send, attempt, sent, cb_forwarded, cb_failed>>
    /\ CounterFrame

\* _flush_batch on thread t, up to the += of the branch taken.
RacyFlushCount(t) ==
    /\ pc[t] \in {"count_ok", "count_fail"}
    /\ loaded' = [loaded EXCEPT ![t] =
           Increment(IF pc[t] = "count_ok" THEN "events_forwarded"
                     ELSE "events_failed", Head(events_to_send[t]))]
    /\ pc' = [pc EXCEPT ![t] = "counting"]
    /\ UNCHANGED <<config, is_running, event_queue, batch_buffer, metrics,
                   w_event, events_to_send, attempt, produced, results, sent,
                   cb_forwarded, cb_failed>>
    /\ CounterFrame

\* The read of the field.
CounterLoad(t) ==
    /\ loaded[t].phase = "load"
    /\ loaded' = [loaded EXCEPT ![t].phase = "store",
                                ![t].value = metrics[loaded[t].field]]
    /\ UNCHANGED <<relayVars>>
    /\ CounterFrame

\* The write of the field: the value read, plus one. In _flush_batch the
\* callback and the next pass of the for loop follow.
CounterStore(t) ==
    /\ loaded[t].phase = "store"
    /\ metrics' = [metrics EXCEPT ![loaded[t].field] = loaded[t].value + 1]
    /\ loaded' = [loaded EXCEPT ![t] = NoIncrement]
    /\ IF t \in Producers
       THEN UNCHANGED <<pc, events_to_send, cb_forwarded, cb_failed>>
       ELSE /\ pc' = [pc EXCEPT ![t] = "flush_next"]
            /\ events_to_send' = [events_to_send EXCEPT ![t] = Tail(@)]
            /\ IF loaded[t].field = "events_forwarded"
               THEN /\ cb_forwarded' = Append(cb_forwarded, loaded[t].event)
                    /\ UNCHANGED cb_failed
               ELSE /\ cb_failed' = Append(cb_failed, loaded[t].event)
                    /\ UNCHANGED cb_forwarded
    /\ UNCHANGED <<config, is_running, event_queue, batch_buffer, w_event,
                   attempt, produced, results, sent>>
    /\ CounterFrame

CounterNext ==
    \/ \E p \in Producers : RacyQueueEvent(p)
    \/ \E t \in CounterThreads : CounterLoad(t)
    \/ \E t \in CounterThreads : CounterStore(t)
    \/ WorkerStep
    \/ \E t \in Threads :
           \/ FlushCheck(t)
           \/ FlushCopy(t)
           \/ FlushNext(t)
           \/ \E o \in SendOutcomes : ForwardAttempt(t, o)
           \/ ForwardExhausted(t)
           \/ RacyFlushCount(t)
    \/ StopCall
    \/ StopJoin

SpecCounters == CounterInit /\ [][CounterNext]_vars

\* ------------------------- Part IX: one relay through start() and stop()
\* Threads one relay may spawn over its life.
MaxWorkers == 2

\* The relay after __init__: not running, no thread.
LifeInit ==
    /\ config = LockConfig
    /\ is_running = FALSE
    /\ event_queue = <<>>
    /\ batch_buffer = <<>>
    /\ metrics = NewMetrics
    /\ pc = [t \in Threads |-> "idle"]
    /\ w_event = 0
    /\ events_to_send = [t \in Threads |-> <<>>]
    /\ attempt = [t \in Threads |-> 0]
    /\ produced = 0
    /\ results = <<>>
    /\ sent = <<>>
    /\ cb_forwarded = <<>>
    /\ cb_failed = <<>>
    /\ SysInit /\ TimeInit /\ RecvInit /\ DiscIdle /\ ExtIdle

LifeFrame ==
    UNCHANGED <<config, pc, w_event, events_to_send, attempt, sysVars,
                timeVars, recvVars, discVars, connVars, callVars, lockVars,
                send_false, loaded, disc_lock>>

LastCall(op, was_running, ret, spawned) ==
    [op |-> op, ret |-> ret, was_running |-> was_running, spawned |-> spawned]

\* InputRelay.start(): False on a running relay; otherwise is_running = True
\* and a new thread at the top of _relay_loop.
LifeStart ==
    /\ lifecycle.caller.at = "idle"
    /\ IF is_running
       THEN /\ lifecycle' = [lifecycle EXCEPT !.last = LastCall("start", TRUE, FALSE, FALSE)]
            /\ UNCHANGED is_running
       ELSE /\ Len(lifecycle.threads) < MaxWorkers
            /\ is_running' = TRUE
            /\ lifecycle' = [lifecycle EXCEPT
                   !.threads = Append(@, [at |-> "loop", copy |-> <<>>]),
                   !.last = LastCall("start", FALSE, TRUE, TRUE)]
    /\ UNCHANGED <<event_queue, batch_buffer, metrics, produced, results, sent,
                   cb_forwarded, cb_failed>>
    /\ LifeFrame

\* InputRelay.stop(): False on a relay that is not running; otherwise
\* is_running = False and _flush_batch() on the caller's thread.
LifeStopCall ==
    /\ lifecycle.caller.at = "idle"
    /\ IF is_running
       THEN /\ is_running' = FALSE
            /\ lifecycle' = [lifecycle EXCEPT !.caller.at = "flush"]
       ELSE /\ lifecycle' = [lifecycle EXCEPT !.last = LastCall("stop", FALSE, FALSE, FALSE)]
            /\ UNCHANGED is_running
    /\ UNCHANGED <<event_queue, batch_buffer, metrics, produced, results, sent,
                   cb_forwarded, cb_failed>>
    /\ LifeFrame

\* _flush_batch up to the end of the with block: return on an empty batch,
\* else copy and clear it.
FlushTaken(th, back) ==
    IF batch_buffer = <<>> THEN [at |-> back, copy |-> <<>>]
    ELSE [at |-> "send", copy |-> batch_buffer]

\* _flush_batch's for loop: every event of the copy is sent (with its
\* retries) and counted; the thread stays here for as long as that takes.
FlushCounted(m, copy, ok) ==
    IF ok THEN [m EXCEPT !.events_forwarded = @ + Len(copy)]
    ELSE [m EXCEPT !.events_failed = @ + Len(copy)]

LifeCallerFlush ==
    /\ lifecycle.caller.at = "flush"
    /\ lifecycle' = [lifecycle EXCEPT !.caller = FlushTaken(@, "join")]
    /\ batch_buffer' = <<>>
    /\ UNCHANGED <<is_running, event_queue, metrics, produced, results, sent,
                   cb_forwarded, cb_failed>>
    /\ LifeFrame

LifeCallerSend(ok) ==
    /\ lifecycle.caller.at = "send"
    /\ metrics' = FlushCounted(metrics, lifecycle.caller.copy, ok)
    /\ sent' = sent \o lifecycle.caller.copy
    /\ lifecycle' = [lifecycle EXCEPT !.caller = [at |-> "join", copy |-> <<>>]]
    /\ UNCHANGED <<is_running, event_queue, batch_buffer, produced, results,
                   cb_forwarded, cb_failed>>
    /\ LifeFrame

\* self.relay_thread.join(timeout=2.0): returns when that thread (the one
\* the last start() spawned) has exited, or when the two seconds are over;
\* only sending, with its retries and delays, keeps a thread that long.
\* stop() returns True either way.
LifeJoin ==
    /\ lifecycle.caller.at = "join"
    /\ lifecycle.threads[Len(lifecycle.threads)].at \in {"done", "send"}
    /\ lifecycle' = [lifecycle EXCEPT !.caller.at = "idle",
                                      !.last = LastCall("stop", TRUE, TRUE, FALSE)]
    /\ UNCHANGED <<is_running, event_queue, batch_buffer, metrics, produced,
                   results, sent, cb_forwarded, cb_failed>>
    /\ LifeFrame

\* while self.is_running:
LifeWorkerTest(w) ==
    /\ w \in DOMAIN lifecycle.threads
    /\ lifecycle.threads[w].at = "loop"
    /\ lifecycle' = [lifecycle EXCEPT !.threads[w].at =
                         IF is_running THEN "get" ELSE "done"]
    /\ UNCHANGED <<is_running, event_queue, batch_buffer, metrics, produced,
                   results, sent, cb_forwarded, cb_failed>>
    /\ LifeFrame

\* One pass of the loop body up to the flush: event_queue.get, _add_to_batch
\* and the size test, or the timeout branch.
LifeWorkerGet(w) ==
    /\ w \in DOMAIN lifecycle.threads
    /\ lifecycle.threads[w].at = "get"
    /\ IF event_queue # <<>>
       THEN /\ event_queue' = Tail(event_queue)
            /\ batch_buffer' = Append(batch_buffer, Head(event_queue))
            /\ lifecycle' = [lifecycle EXCEPT !.threads[w].at =
                   IF Len(batch_buffer) + 1 >= config.batch_size
                   THEN "flush" ELSE "loop"]
       ELSE /\ lifecycle' = [lifecycle EXCEPT !.threads[w].at =
                   IF batch_buffer # <<>> THEN "flush" ELSE "loop"]
            /\ UNCHANGED <<event_queue, batch_buffer>>
    /\ UNCHANGED <<is_running, metrics, produced, results, sent, cb_forwarded,
                   cb_failed>>
    /\ LifeFrame

LifeWorkerFlush(w) ==
    /\ w \in DOMAIN lifecycle.threads
    /\ lifecycle.threads[w].at = "flush"
    /\ lifecycle' = [lifecycle EXCEPT !.threads[w] = FlushTaken(@, "loop")]
    /\ batch_buffer' = <<>>
    /\ UNCHANGED <<is_running, event_queue, metrics, produced, results, sent,
                   cb_forwarded, cb_failed>>
    /\ LifeFrame

LifeWorkerSend(w, ok) ==
    /\ w \in DOMAIN lifecycle.threads
    /\ lifecycle.threads[w].at = "send"
    /\ metrics' = FlushCounted(metrics, lifecycle.threads[w].copy, ok)
    /\ sent' = sent \o lifecycle.threads[w].copy
    /\ lifecycle' = [lifecycle EXCEPT !.threads[w] = [at |-> "loop", copy |-> <<>>]]
    /\ UNCHANGED <<is_running, event_queue, batch_buffer, produced, results,
                   cb_forwarded, cb_failed>>
    /\ LifeFrame

\* A producer calls queue_event with the next event.
LifeQueueEvent ==
    /\ produced < MaxEvents
    /\ LET e == produced + 1
           r == queue_event(is_running, event_queue, metrics,
                            config.max_queue_size, e)
       IN /\ event_queue' = r.queue
          /\ metrics' = r.metrics
          /\ produced' = e
          /\ results' = Append(results, [event |-> e, ret |-> r.ret,
                                         running |-> is_running])
    /\ UNCHANGED <<is_running, batch_buffer, sent, cb_forwarded, cb_failed,
                   lifecycle>>
    /\ LifeFrame

LifeNext ==
    \/ LifeStart
    \/ LifeStopCall
    \/ LifeCallerFlush
    \/ \E ok \in BOOLEAN : LifeCallerSend(ok)
    \/ LifeJoin
    \/ \E w \in 1..MaxWorkers : LifeWorkerTest(w)
    \/ \E w \in 1..MaxWorkers : LifeWorkerGet(w)
    \/ \E w \in 1..MaxWorkers : LifeWorkerFlush(w)
    \/ \E w \in 1..MaxWorkers, ok \in BOOLEAN : LifeWorkerSend(w, ok)
    \/ LifeQueueEvent

SpecLife == LifeInit /\ [][LifeNext]_vars

\* ------------------------------------------------------ history operators
Count(s, e) == Cardinality({i \in 1..Len(s) : s[i] = e})

IsNonDecreasing(s) == \A i, j \in 1..Len(s) : i < j => s[i] <= s[j]

Accepted == SelectSeq(results, LAMBDA r : r.ret)

RejectedFull == SelectSeq(results, LAMBDA r : r.running /\ ~r.ret)

RejectedStopped == SelectSeq(results, LAMBDA r : ~r.running)

\* Nothing has left the queue: every accepted event is still in it.
NoDequeue == Len(event_queue) = Len(Accepted)

AlwaysRunning == \A i \in 1..Len(results) : results[i].running

\* Nothing accepted is waiting anywhere in the relay.
Drained ==
    /\ event_queue = <<>>
    /\ batch_buffer = <<>>
    /\ w_event = 0
    /\ \A t \in Threads : events_to_send[t] = <<>>

\* ------------------------------------------------------------------ claims

\* C1: with queue capacity C = max_queue_size >= 1 on a running relay whose
\* worker has not dequeued, of C+M queue_event attempts the first C return
\* True, the last M return False, and events_failed = M.
C1_QueueFullCounts ==
    (config.max_queue_size >= 1 /\ AlwaysRunning /\ NoDequeue) =>
        /\ \A i \in 1..Len(results) :
               results[i].ret = (i <= config.max_queue_size)
        /\ metrics.events_failed =
               IF produced > config.max_queue_size
               THEN produced - config.max_queue_size ELSE 0
        /\ metrics.events_received = Len(event_queue)

C1_Witness ==
    /\ config.max_queue_size = 2
    /\ AlwaysRunning /\ NoDequeue
    /\ produced = 3
    /\ ~results[3].ret
    /\ metrics.events_failed = 1

\* C2: within the relay, events are handed to the connection in the order
\* queue_event accepted them (event ids grow in acceptance order), whatever
\* the batch size, the retries, and the interleaving with stop().
C2_FifoOrder == IsNonDecreasing(sent)

C2_Witness ==
    /\ Len(sent) >= 3
    /\ sent[1] = 1 /\ sent[2] = 1 /\ sent[3] = 2
    /\ pc["stopper"] # "idle"
    /\ config.batch_size = 1

\* C3: on a running relay whose sends succeed within the retry budget, the
\* relay eventually drains with events_forwarded equal to the number of
\* accepted events, and forwarding adds nothing to events_failed.
C3_EventuallyForwarded ==
    <>[](/\ Drained
         /\ metrics.events_forwarded = Len(Accepted)
         /\ metrics.events_failed = Len(RejectedFull))

C3_Witness ==
    /\ Drained
    /\ Len(Accepted) = 3
    /\ config.batch_size = 2
    /\ metrics.events_forwarded = 3
    /\ Count(sent, 2) = 2

\* C4 as stated: every queue_event call that returns False has added one
\* to events_failed, and every call that returns True has enqueued the
\* event and added one to events_received, in every relay state.
C4_NeverSilent ==
    [][produced' # produced =>
         LET r == results'[Len(results')]
         IN IF r.ret
            THEN /\ event_queue' = Append(event_queue, r.event)
                 /\ metrics'.events_received = metrics.events_received + 1
            ELSE metrics'.events_failed = metrics.events_failed + 1]_vars

\* C4 amended: the above on a running relay; a relay that is not running
\* returns False and leaves the queue and every counter as they were.
C4_CountedWhenRunning ==
    [][produced' # produced =>
         LET r == results'[Len(results')]
         IN IF r.ret
            THEN /\ is_running
                 /\ event_queue' = Append(event_queue, r.event)
                 /\ metrics' = [metrics EXCEPT !.events_received = @ + 1]
            ELSE /\ event_queue' = event_queue
                 /\ IF is_running
                    THEN metrics' = [metrics EXCEPT !.events_failed = @ + 1]
                    ELSE metrics' = metrics]_vars

C4_Witness ==
    /\ Len(Accepted) >= 1
    /\ Len(RejectedFull) >= 1
    /\ Len(RejectedStopped) >= 1

C6_StopFlushesBatch ==
    (pc["stopper"] = "returned" /\ pc["worker"] = "done") =>
        /\ batch_buffer = <<>>
        /\ Len(cb_forwarded) + Len(cb_failed)
               = Len(Accepted) - Len(event_queue)

\* ------------------------------------------------- RelayManager's claims
\* The step is a call of API operation op.
IsCall(op) == last_call'.flip # last_call.flip /\ last_call'.op = op

\* Every running relay object is the one the map holds for its device.
OneRelayPerDevice ==
    /\ \A o \in DOMAIN heap :
           heap[o].is_running =>
               /\ heap[o].device \in DOMAIN relays
               /\ relays[heap[o].device] = o
    /\ \A d \in DOMAIN relays :
           relays[d] \in DOMAIN heap /\ heap[relays[d]].device = d

\* C8: add_relay for a device id that already has a relay returns that
\* relay and creates and starts none; for a new id it creates and starts
\* one; after every step each device id has at most one relay.
C8_AddRelayIdempotent ==
    [][/\ IsCall("add_relay") =>
              LET d == last_call'.device
                  o == last_call'.ret
              IN IF d \in DOMAIN relays
                 THEN o = relays[d] /\ heap' = heap /\ relays' = relays
                 ELSE /\ o \notin DOMAIN heap
                      /\ DOMAIN heap' = DOMAIN heap \cup {o}
                      /\ heap'[o].is_running
                      /\ relays' = relays @@ (d :> o)
       /\ OneRelayPerDevice']_vars

\* A duplicate add_relay has just returned: the relay it returned had
\* already received events.
C8_Witness ==
    /\ last_call.op = "add_relay"
    /\ last_call.device \in DOMAIN relays
    /\ relays[last_call.device] = last_call.ret
    /\ heap[last_call.ret].metrics.events_received >= 1
    /\ Cardinality(DOMAIN heap) = 2

\* The relays of the map whose queue_event accepts an event.
Accepting ==
    {d \in DOMAIN relays :
        /\ heap[relays[d]].is_running
        /\ ~QueueFull(heap[relays[d]].event_queue,
                      heap[relays[d]].config.max_queue_size)}

\* C9: broadcast_event puts the event once into the queue of every relay of
\* the map that has capacity, leaves the others as they were, and returns
\* the number of relays that accepted: 2 for two relays with capacity, 1
\* when only one of two has capacity.
C9_BroadcastCounts ==
    [][IsCall("broadcast_event") =>
           LET e == KeyPress(offered')
           IN /\ last_call'.ret = Cardinality(Accepting)
              /\ relays' = relays
              /\ DOMAIN heap' = DOMAIN heap
              /\ \A d \in DOMAIN relays :
                     heap'[relays[d]].event_queue =
                         IF d \in Accepting
                         THEN Append(heap[relays[d]].event_queue, e)
                         ELSE heap[relays[d]].event_queue
              /\ (DOMAIN relays = Peers /\ Accepting = Peers)
                     => last_call'.ret = 2
              /\ (DOMAIN relays = Peers /\ Accepting = {"b1"})
                     => last_call'.ret = 1]_vars

\* broadcast_event has just returned 1: c1's queue was full and is as it
\* was, b1's queue received the event.
C9_Witness ==
    /\ last_call.op = "broadcast_event"
    /\ last_call.ret = 1
    /\ DOMAIN relays = Peers
    /\ LET x == heap[relays["b1"]]
           y == heap[relays["c1"]]
       IN /\ y.config.max_queue_size = 1
          /\ y.event_queue = <<KeyPress(1)>>
          /\ y.metrics.events_failed = 1
          /\ x.event_queue = <<KeyPress(1), KeyPress(2)>>

\* C7: while the worker runs, no event stays in the batch buffer longer
\* than the linger time (batch_timeout_ms), whatever the arrival pattern.
C7_LingerBound == batch_age <= BatchTimeoutTicks

\* C10: once A (a1), linked to B (b1) over ConnectionHandlers, has broadcast
\* one KEY_PRESS "A", its relay for b1 has handed the event on and b1 has
\* read everything sent to it, b1's receiver has made exactly one handler
\* call for that event, with payload keycode "A" and source_device_id a1.
C10_E2EDelivery ==
    (/\ "b1" \in DOMAIN device_links
     /\ device_links["b1"].connection = "handler"
     /\ offered = 1
     /\ last_call.op = "broadcast_input_event"
     /\ last_call.ret >= 1
     /\ heap[device_links["b1"].relay].metrics.events_received = 1
     /\ heap[device_links["b1"].relay].event_queue = <<>>
     /\ heap[device_links["b1"].relay].batch_buffer = <<>>
     /\ wire["b1"] = <<>>)
    => LET got == SelectSeq(dispatched["b1"], LAMBDA e : e.id = 1)
       IN /\ Len(got) = 1
          /\ got[1].payload.keycode = "A"
          /\ got[1].source_device_id = LocalId

\* C11: establish_connection for a remote id that already has a link
\* returns False, leaves the links, the relay map and every relay object
\* unchanged, and fires no callback.
C11_DuplicateEstablishRejected ==
    [][(IsCall("establish_connection")
        /\ last_call'.device \in DOMAIN device_links)
       => /\ last_call'.ret = FALSE
          /\ device_links' = device_links
          /\ relays' = relays
          /\ heap' = heap
          /\ last_call'.callbacks = <<>>]_vars

\* A duplicate establish has been rejected for a link that is active and
\* whose relay runs and has accepted an event.
C11_Witness ==
    /\ last_call.op = "establish_connection"
    /\ last_call.ret = FALSE
    /\ last_call.callbacks = <<>>
    /\ last_call.device \in DOMAIN device_links
    /\ device_links[last_call.device].is_active
    /\ heap[device_links[last_call.device].relay].is_running
    /\ heap[device_links[last_call.device].relay].metrics.events_received >= 1

\* C12: close_connection on a linked id stops the link's relay, removes it
\* from the relay manager, fires the disconnected callback exactly once and
\* removes the link; on an id without a link it returns False, fires no
\* callback and changes nothing.
C12_CloseTearsDown ==
    [][IsCall("close_connection")
       => LET d == last_call'.device
          IN IF d \in DOMAIN device_links
             THEN /\ \/ device_links[d].relay \notin DOMAIN heap'
                     \/ ~heap'[device_links[d].relay].is_running
                  /\ d \notin DOMAIN relays'
                  /\ last_call'.callbacks = <<Callback("disconnected", d)>>
                  /\ d \notin DOMAIN device_links'
             ELSE /\ last_call'.ret = FALSE
                  /\ last_call'.callbacks = <<>>
                  /\ UNCHANGED <<heap, relays, device_links, offered, wire,
                                 dispatched>>]_vars

\* C13: establish_connection on an id without a link either fails, having
\* called the error callback and leaving no link and no relay for the id,
\* or succeeds, leaving one active link whose relay runs.
C13_EstablishAllOrNothing ==
    [][(IsCall("establish_connection")
        /\ last_call'.device \notin DOMAIN device_links)
       => LET d == last_call'.device
          IN IF last_call'.ret
             THEN /\ d \in DOMAIN device_links'
                  /\ device_links'[d].is_active
                  /\ relays'[d] = device_links'[d].relay
                  /\ heap'[device_links'[d].relay].is_running
             ELSE /\ \E i \in 1..Len(last_call'.callbacks) :
                        last_call'.callbacks[i] = Callback("error", d)
                  /\ d \notin DOMAIN device_links'
                  /\ d \notin DOMAIN relays']_vars

\* C14: for a validated event the Receiver calls every registered handler
\* once, in registration order, whichever of them raise, and no exception
\* leaves process_received_event.
C14_HandlersIsolated ==
    recv_last.valid
    => /\ recv_last.calls = recv_last.handlers
       /\ ~recv_last.propagated

\* A validated event was processed while the first of several handlers
\* raised.
C14_Witness ==
    /\ recv_last.valid
    /\ Len(recv_last.handlers) >= 2
    /\ recv_last.handlers[1] \in recv_last.raising
    /\ recv_last.handlers[2] \notin recv_last.raising
    /\ recv_last.calls = recv_last.handlers

\* Thread t makes one scan in this step.
SweepStep(t) == sweepers[t] = "loop" /\ sweepers'[t] = "sleep"

\* UNKNOWN, ADVERTISED or STALE: the state of peer p in a map and a table.
PeerState(dd, repo, p) ==
    IF p \in Keys(dd) /\ Get(dd, p).is_registered THEN "ADVERTISED"
    ELSE IF p \in Keys(dd) \/ p \in DOMAIN repo THEN "STALE"
    ELSE "UNKNOWN"

\* C15: the local device's id is never a key of the discovered-peer map, and
\* no listener is called with a device whose id is the local device's id.
C15_NeverOwnIdentity ==
    /\ LocalId \notin Keys(discovered_devices)
    /\ \A i \in 1..Len(disc_last.notes) : disc_last.notes[i].id # LocalId

\* The local device's own advertisement was observed by a browsing service
\* that has a listener.
C15_Witness ==
    /\ disc_last.op = "added"
    /\ disc_last.id = LocalId
    /\ browsing
    /\ listeners >= 1

\* C16: between two recorded sightings of a peer no listener gets more than
\* one device_offline for it; a scan reports to every listener exactly once
\* each advertised peer of the map whose last sighting is older than the
\* threshold, reports no other peer, and nothing but a scan reports
\* device_offline.
C16_OfflineOncePerTransition ==
    [][/\ \A p \in Peers : offline_since_seen'[p] <= 1
       /\ \A i \in 1..Len(disc_last'.notes) :
              disc_last'.notes[i].kind = "device_offline"
                  => /\ \E t \in 1..MaxStarts : SweepStep(t)
                     /\ disc_last'.notes[i].id \in Keys(discovered_devices)
       /\ (\E t \in 1..MaxStarts : SweepStep(t))
              => \A i \in 1..Len(discovered_devices), l \in 1..listeners :
                     CountNotes(disc_last'.notes, l, "device_offline",
                                discovered_devices[i].id)
                         = IF IsOffline(discovered_devices[i]) THEN 1 ELSE 0
      ]_vars

\* A scan has reported one peer to the second listener while another peer of
\* the map, sighted within the window, stays advertised and unreported.
C16_Witness ==
    /\ disc_last.op = "sweep"
    /\ \E p \in Peers, q \in Peers :
           /\ p # q
           /\ CountNotes(disc_last.notes, 2, "device_offline", p) = 1
           /\ offline_since_seen[p] = 1
           /\ q \in Keys(discovered_devices)
           /\ Get(discovered_devices, q).is_registered
           /\ offline_since_seen[q] = 0

\* C17: a withdrawal by peer p leaves p not advertised and the state of every
\* other peer as it was, and a listener is notified about a peer only in a
\* step that changes that peer's state.
C17_WithdrawalClearsPeer ==
    [][/\ disc_last'.op = "removed"
              => /\ PeerState(discovered_devices', device_repo', disc_last'.id)
                        # "ADVERTISED"
                 /\ \A q \in Peers \ {disc_last'.id} :
                        PeerState(discovered_devices', device_repo', q)
                            = PeerState(discovered_devices, device_repo, q)
       /\ \A i \in 1..Len(disc_last'.notes) :
              PeerState(discovered_devices', device_repo', disc_last'.notes[i].id)
                  # PeerState(discovered_devices, device_repo, disc_last'.notes[i].id)
      ]_vars

\* C18: every state change a handler or a scan makes is reported exactly once
\* to every listener, raising or not, and a scan marks and reports every
\* peer that is due whichever listeners raise.
C18_ListenerIsolation ==
    [][/\ \A c \in disc_last'.changed, l \in 1..listeners' :
              CountNotes(disc_last'.notes, l, c.kind, c.id) = 1
       /\ \A t \in 1..MaxStarts : SweepStep(t) =>
              \A i \in 1..Len(discovered_devices) :
                  IsOffline(discovered_devices[i]) =>
                      /\ [kind |-> "device_offline", id |-> discovered_devices[i].id]
                             \in disc_last'.changed
                      /\ ~discovered_devices'[i].is_registered
      ]_vars

\* A scan whose first listener raised has reported two peers to both
\* listeners.
C18_Witness ==
    /\ disc_last.op = "sweep"
    /\ disc_last.raising = {1}
    /\ listeners = 2
    /\ \A p \in Peers, l \in 1..2 :
           CountNotes(disc_last.notes, l, "device_offline", p) = 1

\* C19: an added or updated observation whose device_id is missing or not a
\* well-formed UUID leaves the map and the table as they were and calls no
\* listener.
C19_InvalidIdentityDiscarded ==
    [][(disc_last'.op \in {"added", "updated"} /\ disc_last'.id \in InvalidIds)
          => /\ discovered_devices' = discovered_devices
             /\ device_repo' = device_repo
             /\ disc_last'.notes = <<>>
      ]_vars

\* C20: stop() leaves the service stopped, and a check_offline_loop thread
\* started before the last stop() reports nothing and changes neither the map
\* nor the table.
C20_StopEndsSweep ==
    [][/\ disc_last'.op = "stop" => ~disc_running' /\ ~browsing'
       /\ \A t \in 1..MaxStarts : (SweepStep(t) /\ t < starts) =>
              /\ disc_last'.notes = <<>>
              /\ discovered_devices' = discovered_devices
              /\ device_repo' = device_repo
      ]_vars

\* The receive_message calls completed so far, in order.
Receives == SelectSeq(handler_log, LAMBDA e : e.op = "receive")

\* The message receive_message builds from the bytes of send_message(m).
Received(m) ==
    [msg_type |-> m.msg_type, data |-> json_loads(json_dumps(m.data)),
     timestamp |-> "now"]

FrameSize(m) == encode(MessageText(m)).n

\* The call started at the first length byte of a frame.
Aligned(e) == e.first # <<>> /\ e.first.part = "len" /\ e.first.k = 1

\* C21 (as stated): the i-th receive_message on a pair whose peer stays
\* connected returns the i-th sent message with msg_type and data exactly
\* as given to send_message.
C21_RoundTripExact ==
    \A i \in 1..Len(Receives) :
        Receives[i].why # "closed" =>
            /\ i <= Len(tx_log)
            /\ Receives[i].ret = "message"
            /\ Receives[i].msg.msg_type = tx_log[i].msg_type
            /\ Receives[i].msg.data = tx_log[i].data

\* C21 (amended): while every frame sent is at most 1 MiB, the i-th
\* receive_message returns the i-th sent message: its msg_type, and its
\* data as json.loads(json.dumps(data)) gives it, which is the data itself
\* when that is built from str, int, list and dicts with str keys.
C21_RoundTripJson ==
    \A i \in 1..Len(Receives) :
        (/\ \A k \in 1..i : Receives[k].why # "closed"
         /\ \A f \in 1..Len(tx_log) : f <= i => FrameSize(tx_log[f]) <= MaxMessageBytes)
            => /\ i <= Len(tx_log)
               /\ Receives[i].ret = "message"
               /\ Receives[i].msg.msg_type = tx_log[i].msg_type
               /\ Receives[i].msg.data = json_loads(json_dumps(tx_log[i].data))
               /\ IsJsonNative(tx_log[i].data) => Receives[i].msg.data = tx_log[i].data

\* Two sends were received in order: a nested payload as sent, then a tuple
\* under an int key as a list under a str key.
C21_Witness ==
    /\ Len(Receives) = 2
    /\ Receives[1].ret = "message"
    /\ Receives[1].msg.data = DataNested
    /\ Receives[2].ret = "message"
    /\ tx_log[2].data = DataTuple
    /\ Receives[2].msg.data # DataTuple

\* C22: a receive_message that returns a message or a decode error has
\* consumed 4 + N bytes; one that starts at a frame of at most 1 MiB whose
\* bytes arrive returns that frame's message however the bytes are split;
\* one that meets the peer's close returns None with fewer bytes consumed.
C22_ExactRead ==
    \A i \in 1..Len(Receives) :
        LET e == Receives[i]
        IN /\ e.why \in {"ok", "decode_error"}
                  => e.consumed = LengthPrefixBytes + e.length
           /\ (/\ Aligned(e)
               /\ e.why # "closed"
               /\ FrameSize(tx_log[e.first.f]) <= MaxMessageBytes)
                  => /\ e.ret = "message"
                     /\ e.length = FrameSize(tx_log[e.first.f])
                     /\ e.msg = Received(tx_log[e.first.f])
           /\ e.why = "closed"
                  => /\ e.ret = "none"
                     /\ e.consumed < LengthPrefixBytes + e.length

\* One frame was returned after partial reads of its length prefix, and a
\* later call met the peer's close inside a frame.
C22_Witness ==
    \E i \in 1..Len(Receives), j \in 1..Len(Receives) :
        /\ i < j
        /\ Receives[i].ret = "message"
        /\ Receives[i].chunks >= 4
        /\ Receives[j].why = "closed"
        /\ Receives[j].consumed > 0

\* C23: a receive_message that reads a length over 1 MiB returns None
\* having consumed the 4 length bytes only; one that reads a length from 1
\* to 1 MiB, and is not cut off by the peer's close, consumes the whole frame.
C23_OversizeRejected ==
    \A i \in 1..Len(Receives) :
        LET e == Receives[i]
        IN /\ e.length > MaxMessageBytes
                  => /\ e.ret = "none"
                     /\ e.why = "bad_length"
                     /\ e.consumed = LengthPrefixBytes
           /\ (e.length >= 1 /\ e.length <= MaxMessageBytes /\ e.why # "closed")
                  => e.consumed = LengthPrefixBytes + e.length

\* A frame of exactly 1 MiB was returned and a frame of one byte more was
\* rejected.
C23_Witness ==
    \E i \in 1..Len(Receives), j \in 1..Len(Receives) :
        /\ Receives[i].length = MaxMessageBytes
        /\ Receives[i].ret = "message"
        /\ Receives[j].length = MaxMessageBytes + 1
        /\ Receives[j].ret = "none"

\* C24: once receive_message has rejected a length over 1 MiB the handler
\* has no socket, and every later send_message and receive_message on it
\* fails, the latter without reading from a socket.
C24_OversizeAbandons ==
    \A i \in 1..Len(handler_log) :
        (/\ handler_log[i].op = "receive"
         /\ handler_log[i].why = "bad_length"
         /\ handler_log[i].length > MaxMessageBytes)
            => /\ sock = "none"
               /\ \A j \in (i + 1)..Len(handler_log) :
                      /\ handler_log[j].ret \in {"none", "false"}
                      /\ handler_log[j].op = "receive"
                             => handler_log[j].why = "no_socket"

\* C25: the bytes written by concurrent send_message calls are whole frames
\* one after the other: each length byte is followed by the next byte of the
\* same frame.
C25_FramesSerial ==
    \A i \in 1..(Len(stream) - 1) :
        stream[i].part = "len"
            => /\ stream[i + 1].f = stream[i].f
               /\ IF stream[i].k < LengthPrefixBytes
                  THEN stream[i + 1].part = "len" /\ stream[i + 1].k = stream[i].k + 1
                  ELSE stream[i + 1].part = "payload"

C27_NoLockAcrossBlocking == relay_lock.held => ~Blocking("stopper")

\* C28: a relay callback that raises costs nothing: no event of the batch
\* goes unforwarded and uncounted, and stop() still reaches the join.
C28_CallbackRaiseContained == cb_raised.lost = {} /\ ~cb_raised.join_skipped

\* C29: every Device that construction accepts has a hardware address that
\* is absent or in hex-pair form, a port in [1024, 65535] and a name of at
\* most 50 characters; construction with any other port, a longer name or
\* another hardware address fails.
C29_DeviceInvariants ==
    call_result.status # "pending" =>
        (call_result.status = "returned" <=>
            /\ validate_uuid(call_args.id)
            /\ call_args.mac_address = <<>> \/ HexPairs(call_args.mac_address)
            /\ call_args.port \in 1024..65535
            /\ validate_device_name(call_args.name)
            /\ call_args.ip_address # <<>> => validate_ip_address(call_args.ip_address)
            /\ validate_os_type(call_args.os))

\* C30: for an InputEvent of any of the six kinds, from_dict(to_dict(e)) is
\* an event with the same id, kind, device ids, payload, timestamp and
\* encryption flag.
C30_EventRoundTrip ==
    /\ call_result.status # "rebuild_raised"
    /\ call_result.status = "rebuilt" => call_result.value = call_args

C30_Witness ==
    /\ call_result.status = "rebuilt"
    /\ call_args.event_type.member = "MOUSE_SCROLL"
    /\ call_args.timestamp.microsecond # 0
    /\ call_args.timestamp.offset # 0
    /\ ~call_args.is_encrypted

\* The payload fields the contract names for each kind.
ContractFields(kind) ==
    IF kind \in {"KEY_PRESS", "KEY_RELEASE"} THEN {"keycode"}
    ELSE IF kind = "MOUSE_MOVE" THEN {"x", "y"}
    ELSE IF kind \in {"MOUSE_CLICK", "MOUSE_RELEASE"} THEN {"button"}
    ELSE {"scroll_delta"}

\* C31: an InputEvent that construction or from_dict returns has every
\* payload field its kind requires, and construction or from_dict of fields
\* whose payload lacks one of them fails.
C31_PayloadValidated ==
    /\ call_result.status \in {"event", "rebuilt", "parsed"} =>
           ContractFields(call_result.value.event_type.member)
               \subseteq DOMAIN call_result.value.payload
    /\ (/\ call_result.status \notin {"pending", "wire_dict"}
        /\ ~(ContractFields(call_args.event_type.member)
                 \subseteq DOMAIN call_args.payload))
           => call_result.status \in {"raised", "parse_raised"}

C31_Witness ==
    /\ call_result.status = "parse_raised"
    /\ call_args.source_device_id = LocalId
    /\ call_args.event_type.member = "MOUSE_MOVE"
    /\ DOMAIN call_args.payload = {"x"}

\* C32: start() on a running relay returns False and spawns no thread,
\* stop() on a relay that is not running returns False, and no two threads
\* of the relay wait on its queue at the same time.
C32_OneWorker ==
    /\ lifecycle.last.op = "start" /\ lifecycle.last.was_running =>
           ~lifecycle.last.ret /\ ~lifecycle.last.spawned
    /\ lifecycle.last.op = "stop" /\ ~lifecycle.last.was_running =>
           ~lifecycle.last.ret
    /\ Cardinality({w \in DOMAIN lifecycle.threads :
                       lifecycle.threads[w].at = "get"}) <= 1

\* C33: an event counted in events_forwarded had a send that the handler
\* reported successful: an event whose send returned False is retried or
\* counted failed, never counted forwarded.
C33_ForwardedOnlyIfSent ==
    \A i \in DOMAIN cb_forwarded : cb_forwarded[i] \notin send_false

\* Events counted failed on forwarding: on_event_failed is called once for
\* each.
FailedOnForwarding == Len(cb_failed)

\* C34: once stop() has returned and the worker has exited, every accepted
\* event has been counted forwarded or failed on forwarding.
C34_NoneLostUncounted ==
    pc["stopper"] = "returned" /\ pc["worker"] = "done" =>
        metrics.events_received = metrics.events_forwarded + FailedOnForwarding

\* C39: the queue never holds more than max_queue_size events and the batch
\* buffer never more than batch_size.
C39_MemoryBounded ==
    /\ Len(event_queue) <= config.max_queue_size
    /\ Len(batch_buffer) <= config.batch_size

\* C35: whenever no increment is in progress, events_received is the
\* number of accepted enqueues and events_failed the number of queue-full
\* rejections plus the number of retry-exhausted events.
C35_CountersExact ==
    (\A t \in CounterThreads : loaded[t] = NoIncrement) =>
        /\ metrics.events_received = Len(Accepted)
        /\ metrics.events_failed = Len(RejectedFull) + Len(cb_failed)

\* The sends of event e that returned: those already counted, and the one a
\* thread is about to count.
SuccessfulSends(e) ==
    Count(cb_forwarded, e)
        + Cardinality({t \in Threads :
              /\ pc[t] = "count_ok"
              /\ Head(events_to_send[t]) = e})

\* C36: no event has two successful sends or is counted forwarded twice,
\* also when stop()'s flush and the worker's flush meet on the batch buffer.
C36_ForwardedOnce ==
    /\ \A e \in 1..MaxEvents : SuccessfulSends(e) <= 1
    /\ metrics.events_forwarded = Len(cb_forwarded)

C36_Witness ==
    /\ pc["stopper"] = "flush_copy"
    /\ pc["worker"] = "count_ok"
    /\ Len(events_to_send["worker"]) = 2
    /\ batch_buffer = <<>>
    /\ Len(cb_forwarded) = 1

\* ------------------------------------------------------------------------
\* Part X: DiscoveryService._lock, one critical section at a time. The
\* handlers of Part V on two threads: each "with self._lock" block is one
\* step, and each listener call is a step of its own, made while the lock is
\* held or after it was released as the code has it. A listener may call
\* get_discovered() from its callback.

MutexFrame ==
    UNCHANGED <<relayVars, sysVars, timeVars, recvVars, connVars, callVars,
                lockVars, lifecycle, send_false, loaded>>

\* threading.Lock is not reentrant: acquire waits while any thread holds it,
\* the calling thread included.
CanAcquire == disc_lock.holder = "none"

\* Thread t has left the update of a handler with notes to deliver, holding
\* the lock or not.
Notifying(t, notes, holding) ==
    [disc_lock EXCEPT !.holder = IF holding THEN t ELSE "none",
                      !.at[t] = "notify",
                      !.pending[t] = notes]

\* _on_device_added on the zeroconf thread: the table and the map are
\* updated inside "with self._lock", the listeners are called after it.
MutexAdded(p, name) ==
    /\ browsing
    /\ disc_lock.at["zeroconf"] = "idle"
    /\ \A q \in Peers \ {p} : advertised[q] # name
    /\ CanAcquire
    /\ LET res == on_device_added(discovered_devices, device_repo, listeners,
                                  name, [present |-> TRUE, device_id |-> p], {})
       IN /\ Apply(res)
          /\ disc_last' = DiscStep("added", p, res, 0, {})
          /\ disc_lock' = Notifying("zeroconf", res.notes, FALSE)
    /\ advertised' = [advertised EXCEPT ![p] = name]
    /\ UNCHANGED <<disc_running, browsing, listeners, sweepers, starts>>
    /\ MutexFrame

\* _on_device_removed on the zeroconf thread: the listener loop is inside
\* "with self._lock".
MutexRemoved(p) ==
    /\ browsing
    /\ disc_lock.at["zeroconf"] = "idle"
    /\ advertised[p] # "none"
    /\ CanAcquire
    /\ LET res == on_device_removed(discovered_devices, device_repo, listeners,
                                    advertised[p], {})
       IN /\ Apply(res)
          /\ disc_last' = DiscStep("removed", p, res, 0, {})
          /\ disc_lock' = Notifying("zeroconf", res.notes, TRUE)
    /\ advertised' = [advertised EXCEPT ![p] = "none"]
    /\ UNCHANGED <<disc_running, browsing, listeners, sweepers, starts>>
    /\ MutexFrame

\* check_offline_loop of the first thread at "while self.running": the scan
\* and its listener loop are inside "with self._lock".
MutexSweep ==
    /\ sweepers[1] = "loop"
    /\ disc_running
    /\ disc_lock.at["sweeper"] = "idle"
    /\ CanAcquire
    /\ LET res == check_offline(discovered_devices, device_repo, listeners, {}, 1)
       IN /\ Apply(res)
          /\ disc_last' = DiscStep("sweep", "none", res, 1, {})
          /\ disc_lock' = Notifying("sweeper", res.notes, TRUE)
    /\ sweepers' = [sweepers EXCEPT ![1] = "scan"]
    /\ UNCHANGED <<disc_running, browsing, listeners, advertised, starts>>
    /\ MutexFrame

\* listener(kind, device) is called on thread t. reads: the callback calls
\* get_discovered(); otherwise it returns at once.
ListenerCalled(t, reads) ==
    /\ disc_lock.at[t] = "notify"
    /\ disc_lock.pending[t] # <<>>
    /\ disc_lock' =
           [disc_lock EXCEPT
               !.invoked = @ \cup {[kind |-> Head(disc_lock.pending[t]).kind,
                                    holding |-> disc_lock.holder = t]},
               !.at[t] = IF reads THEN "get_discovered" ELSE "notify",
               !.pending[t] = IF reads THEN @ ELSE Tail(@)]
    /\ disc_last' = NoCall
    /\ UNCHANGED <<disc_running, browsing, listeners, discovered_devices,
                   device_repo, sweepers, advertised, starts, offline_since_seen>>
    /\ MutexFrame

\* get_discovered() inside the callback on thread t: "with self._lock:
\* return list(...)", then the callback returns.
ListenerGetDiscovered(t) ==
    /\ disc_lock.at[t] = "get_discovered"
    /\ CanAcquire
    /\ disc_lock' = [disc_lock EXCEPT !.at[t] = "notify",
                                      !.pending[t] = Tail(@)]
    /\ disc_last' = NoCall
    /\ UNCHANGED <<disc_running, browsing, listeners, discovered_devices,
                   device_repo, sweepers, advertised, starts, offline_since_seen>>
    /\ MutexFrame

\* The listener loop of thread t is over: the with block, if the loop was
\* inside one, ends and releases the lock; the sweeper goes to its sleep.
NotifyDone(t) ==
    /\ disc_lock.at[t] = "notify"
    /\ disc_lock.pending[t] = <<>>
    /\ disc_lock' = [disc_lock EXCEPT
                        !.holder = IF @ = t THEN "none" ELSE @,
                        !.at[t] = "idle"]
    /\ sweepers' = IF t = "sweeper" THEN [sweepers EXCEPT ![1] = "sleep"]
                   ELSE sweepers
    /\ disc_last' = NoCall
    /\ UNCHANGED <<disc_running, browsing, listeners, discovered_devices,
                   device_repo, advertised, starts, offline_since_seen>>
    /\ MutexFrame

MutexNext ==
    \/ DiscAddListener
    \/ DiscStart
    \/ \E p \in Peers, name \in ServiceNames : MutexAdded(p, name)
    \/ \E p \in Peers : MutexRemoved(p)
    \/ MutexSweep
    \/ \E t \in DiscThreads, reads \in BOOLEAN : ListenerCalled(t, reads)
    \/ \E t \in DiscThreads : ListenerGetDiscovered(t)
    \/ \E t \in DiscThreads : NotifyDone(t)
    \/ SweepWake(1)
    \/ DiscTick

SpecMutex == DiscServiceInit /\ [][MutexNext]_vars

\* ------------------------------------------------------------------------
\* Part XI: stop() to its end, with event_lock taken and released in steps
\* of their own. A thread at "add_locked" or "copy_locked" holds event_lock.

EventLockFree ==
    \A t \in Threads : pc[t] \notin {"add_locked", "copy_locked"}

StopFrame ==
    /\ UNCHANGED <<config, is_running, event_queue, batch_buffer, metrics,
                   w_event, events_to_send, attempt, produced, results, sent,
                   cb_forwarded, cb_failed>>
    /\ UNCHANGED <<sysVars, timeVars, restVars>>

\* _add_to_batch: "with self.event_lock" is entered.
AddAcquire ==
    /\ pc["worker"] = "add"
    /\ EventLockFree
    /\ pc' = [pc EXCEPT !["worker"] = "add_locked"]
    /\ StopFrame

\* _add_to_batch: the append, and the end of the with block.
AddLocked ==
    /\ pc["worker"] = "add_locked"
    /\ batch_buffer' = Append(batch_buffer, w_event)
    /\ w_event' = 0
    /\ pc' = [pc EXCEPT !["worker"] = "size"]
    /\ UNCHANGED <<config, is_running, event_queue, metrics, events_to_send,
                   attempt, produced, results, sent, cb_forwarded, cb_failed>>
    /\ UNCHANGED <<sysVars, timeVars, restVars>>

\* _flush_batch on thread t: "with self.event_lock" is entered.
CopyAcquire(t) ==
    /\ pc[t] = "flush_copy"
    /\ EventLockFree
    /\ pc' = [pc EXCEPT ![t] = "copy_locked"]
    /\ StopFrame

\* _flush_batch on thread t: copy and clear, and the end of the with block.
CopyLocked(t) ==
    /\ pc[t] = "copy_locked"
    /\ events_to_send' = [events_to_send EXCEPT ![t] = batch_buffer]
    /\ batch_buffer' = <<>>
    /\ pc' = [pc EXCEPT ![t] = "flush_next"]
    /\ UNCHANGED <<config, is_running, event_queue, metrics, w_event, attempt,
                   produced, results, sent, cb_forwarded, cb_failed>>
    /\ UNCHANGED <<sysVars, timeVars, restVars>>

\* The steps of the worker thread and of the thread that called stop().
WorkerThread ==
    \/ WorkerLoop
    \/ WorkerGet
    \/ WorkerTimeout
    \/ AddAcquire
    \/ AddLocked
    \/ WorkerSizeCheck

FlushThread(t) ==
    \/ FlushCheck(t)
    \/ CopyAcquire(t)
    \/ CopyLocked(t)
    \/ FlushNext(t)
    \/ \E o \in SendOutcomes : ForwardAttempt(t, o)
    \/ ForwardExhausted(t)
    \/ FlushCountForwarded(t)
    \/ FlushCountFailed(t)

StopNext ==
    \/ QueueEvent
    \/ WorkerThread
    \/ \E t \in Threads : FlushThread(t)
    \/ StopCall
    \/ StopJoin

\* Every thread that can take a step takes one in the end: the worker, and
\* the caller of stop() once it is inside stop(). Producers and the call of
\* stop() itself are under no obligation.
StopFair ==
    /\ WF_vars(WorkerThread \/ FlushThread("worker"))
    /\ WF_vars(FlushThread("stopper") \/ StopJoin)

SpecStop == Init /\ [][StopNext]_vars /\ StopFair

\* C37: the ids that have a link are the ids that have a relay in the
\* RelayManager, and every link is active and owns the running relay the
\* manager holds for its id.
C37_LinkRelayConsistent ==
    /\ DOMAIN device_links = DOMAIN relays
    /\ \A d \in DOMAIN device_links :
           /\ device_links[d].is_active
           /\ device_links[d].relay = relays[d]
           /\ heap[relays[d]].is_running

\* C38: no listener is called by a thread that holds the discovered-peer
\* mutex, and a listener that calls get_discovered() from its callback is
\* never waiting for a lock its own thread holds.
C38_ListenersOutsideLock ==
    /\ \A c \in disc_lock.invoked : ~c.holding
    /\ \A t \in DiscThreads :
           disc_lock.at[t] = "get_discovered" => disc_lock.holder # t

\* C40: once stop() has cleared is_running on a running relay, the worker
\* loop exits and stop() returns, whatever the worker, the flush and the
\* producers were doing, and with event_lock contended between the two
\* flushes and _add_to_batch.
C40_StopTerminates ==
    (pc["stopper"] = "flush_check")
        ~> (pc["worker"] = "done" /\ pc["stopper"] = "returned")

\* stop() has returned and the worker has exited, after a send that was
\* retried, an event forwarded, and a queue_event call made after the stop.
C40_Witness ==
    /\ pc["worker"] = "done"
    /\ pc["stopper"] = "returned"
    /\ \E i \in 1..Len(results) : ~results[i].running
    /\ Len(sent) > Len(cb_forwarded) + Len(cb_failed)
    /\ cb_forwarded # <<>>

====
